---- MODULE Spec2Model ----
(***************************************************************************)
(* A model of the YARA-X compiler front (Compiler::add_source,             *)
(* process_imports, process_rule, build), of the loop-variable stack of    *)
(* the code generator's Context, and of the host primitives the emitted    *)
(* WASM code calls at scan time (rule_match, uint*, array/map lookups).    *)
(***************************************************************************)
EXTENDS Integers, Sequences, FiniteSets, TLC

(***************************************************************************)
(* Bounds of the model.                                                    *)
(***************************************************************************)
\* add_source calls made on one compiler
MaxSources == 2
\* namespaces in one source
MaxNamespaces == 2
\* rule declarations over all the sources given to one compiler
MaxRules == 2
\* import statements processed by one compiler
MaxImports == 2
\* rules of a scanned rule set; more than 8, so that the bitmap spans two bytes
MaxScanRules == 9
\* length of the scanned data; more than 8, so that uint64 can be read at two offsets
MaxDataLen == 9
\* items of each array and entries of each map of the scanned module data
MaxArrayLen == 2
\* grammar rules in the list of expected rules: three names can be enumerated
MaxExpected == 3
\* grammar rules in the list of unexpected rules
MaxUnexpected == 2
\* magnitude of the integers a host function returns
MaxWasmInt == 5
\* calls of rule_match in one scan
MaxMatches == 3
\* certificates of an Authenticode signature
MaxCerts == 3
\* certificates build_chain is followed for: more than MaxCerts, so that a
\* chain longer than the signature's certificates shows
MaxChainLen == 4
\* calls of the functions of the magic module in one scan
MaxMagicCalls == 5
\* rules of one source whose code is emitted
MaxEmitRules == 2
\* depth of the loops of a condition
MaxLoopDepth == 2
\* variables a loop allocates
MaxLoopVars == 2
\* nested signatures in the unsigned attributes of one signature
MaxNested == 2
\* functions in WASM_EXPORTS
MaxExports == 2

(***************************************************************************)
(* Program constants.                                                      *)
(***************************************************************************)
\* wasm/mod.rs: offset where the space for loop variables starts
VARS_STACK_START == 0
\* wasm/mod.rs: offset where the space for loop variables ends
VARS_STACK_END == VARS_STACK_START + 1024
\* wasm/mod.rs: space for the field lookup indexes
LOOKUP_INDEXES_START == VARS_STACK_END
LOOKUP_INDEXES_END == LOOKUP_INDEXES_START + 1024
\* wasm/mod.rs: base of the bitmap with one bit per rule
MATCHING_RULES_BITMAP_BASE == LOOKUP_INDEXES_END
\* mem::size_of::<i64>() in Context::new_var
SizeOfI64 == 8

(***************************************************************************)
(* Identifiers the sources are drawn from.                                 *)
(***************************************************************************)
RuleIdents == {"r1", "r2"}
\* the `strings:` sections a rule may have (identifiers unique in a rule)
PatternLists == {<< >>, <<"$a", "$b">>}
\* names that appear in import statements; "zz" is in no registry
ImportNames == {"magic", "data", "zz"}

NoTag == "<none>"

\* modules/mod.rs: the registry, module name -> Module.rust_module_name
BUILTIN_MODULES ==
    [m \in {"magic", "data"} |-> IF m = "magic" THEN "magic" ELSE NoTag]

\* wasm/mod.rs: the distributed slice of functions callable from WASM
WASM_EXPORTS ==
    << [name |-> "rule_match", public |-> FALSE, rust_module_path |-> "yara_x::wasm"],
       [name |-> "uint8",      public |-> TRUE,  rust_module_path |-> "yara_x::wasm"],
       [name |-> "uint16",     public |-> TRUE,  rust_module_path |-> "yara_x::wasm"],
       [name |-> "uint32",     public |-> TRUE,  rust_module_path |-> "yara_x::wasm"],
       [name |-> "uint64",     public |-> TRUE,  rust_module_path |-> "yara_x::wasm"],
       [name |-> "uint8be",    public |-> TRUE,  rust_module_path |-> "yara_x::wasm"],
       [name |-> "uint16be",   public |-> TRUE,  rust_module_path |-> "yara_x::wasm"],
       [name |-> "uint32be",   public |-> TRUE,  rust_module_path |-> "yara_x::wasm"],
       [name |-> "uint64be",   public |-> TRUE,  rust_module_path |-> "yara_x::wasm"],
       [name |-> "type",       public |-> TRUE,  rust_module_path |-> "yara_x::modules::magic"],
       [name |-> "mime_type",  public |-> TRUE,  rust_module_path |-> "yara_x::modules::magic"] >>

(***************************************************************************)
(* State.                                                                  *)
(***************************************************************************)
VARIABLES
    \* ---- Compiler (compiler/mod.rs) ----
    pc,                \* where the caller / add_source stands
    symbol_table,      \* Compiler.symbol_table: stack of frames, top last
    ident_pool,        \* Compiler.ident_pool: IdentId i is ident_pool[i+1]
    rules,             \* Compiler.rules
    patterns,          \* Compiler.patterns
    imported_modules,  \* Compiler.imported_modules
    modules_struct,    \* Compiler.modules_struct: field names, by field index
    warnings,          \* Compiler.warnings
    artifact,          \* the Rules value returned by build, or NoArtifact
    src,               \* the source being added: rule declarations left, per namespace left
    \* ---- history of the compilation (not program state) ----
    n_sources,         \* add_source calls made
    declared,          \* rule declarations in all the sources given so far
    emitted,           \* RuleIds handed to emit_rule_code, in order
    ns_defined,        \* names inserted in the current namespace's frame
    earlier_defined,   \* names inserted in the frames of earlier namespaces
    n_imports,         \* import statements processed
    result,            \* how the last add_source ended: none, ok, err, panic
    error,             \* the Error the last add_source returned, or NoError
    casts,             \* RuleIds whose condition was cast to bool at its root
    cond_type,         \* by RuleId, the static type of the rule's condition
    \* ---- Context of one rule's code generation (compiler/mod.rs 494-542) ----
    vars_stack_top,    \* Context.vars_stack_top
    ctx_pc,            \* emitting, or panicked
    live,              \* indexes of the Vars handed out and not freed, oldest first
    last,              \* the last call on the Context and what it returned
    \* ---- ScanContext during one run of main (wasm/mod.rs 505-524) ----
    num_rules,         \* rules of the compiled rule set being run
    main_memory,       \* bytes of main memory: the bitmap, and the ends of the regions below it
    rules_matching,    \* ScanContext.rules_matching
    cond,              \* outcome of each rule condition main has evaluated so far
    \* ---- ScanContext during calls of the uint primitives (wasm/mod.rs 1060-1092) ----
    scanned_data,      \* ScanContext.scanned_data(): the bytes being scanned
    uint_call,         \* the last uint* call: function, offset and what it returned
    \* ---- ScanContext during field, array and map lookups (wasm/mod.rs 588-1009) ----
    root_struct,       \* ScanContext.root_struct
    current_struct,    \* ScanContext.current_struct, or NoStruct
    vars_stack,        \* ScanContext.vars_stack: slot i is vars_stack[i+1]
    lookup_call,       \* the last lookup call: function, arguments, result, state before
    \* ---- one call of Error::syntax_error_message (parser/errors.rs 161-214) ----
    expected,          \* the grammar rules the parser expected at the position
    unexpected,        \* the grammar rules the parser did not expect there
    message,           \* the String returned, or NoMessage
    \* ---- one call of ToWasm::to_wasm (wasm/mod.rs 244-308) ----
    wasm_value,        \* the value a host function returns
    wasm_raw,          \* the ValRaws it was converted to, or NotConverted
    \* ---- AuthenticodeSignature::build_chain (pe/authenticode.rs 572-609) ----
    certificates,      \* AuthenticodeSignature.certificates
    signer,            \* the IssuerAndSerialNumber the chain is asked for
    chain,             \* the chain built so far: indexes into certificates
    chain_cert,        \* `cert`: the index of the certificate the loop is at
    chain_pc,          \* find, loop, or returned
    \* ---- magic module (modules/magic/mod.rs) ----
    type_cache,        \* TYPE_CACHE of the thread
    mime_type_cache,   \* MIME_TYPE_CACHE of the thread
    magic_flags,       \* flags of the MAGIC cookie of the thread
    magic_data,        \* data of the scan in course
    magic_call,        \* the last call of the module: function, data, value returned
    magic_invocations, \* times libmagic was invoked for type and for mime_type in this scan
    \* ---- emission of the rules of a source (compiler/mod.rs 299-310) ----
    loop_frames,       \* the loops being emitted: the index of the first Var of each
    emit_log,          \* for each rule emitted or being emitted, the highest vars_stack_top reached
    \* ---- AuthenticodeParser::parse (pe/authenticode.rs 196-436) ----
    auth_input,        \* the ContentInfo decoded from the input
    auth_result,       \* NotParsed, or what parse returned
    \* ---- functions of the modules and the linker (compiler/mod.rs 96-108, 339-380; wasm/mod.rs 136-151, 481-503) ----
    registry,          \* BUILTIN_MODULES in the order its iterator gives: name and rust_module_name
    exports,           \* WASM_EXPORTS
    builtin_functions, \* the frame of built-in functions of Compiler::new, or NotBuilt
    module_functions,  \* for each module imported, the function fields of its struct
    linker             \* what new_linker defined, or NotLinked

compilerVars == << pc, symbol_table, ident_pool, rules, patterns, imported_modules,
                   modules_struct, warnings, artifact, src, n_sources, declared,
                   emitted, ns_defined, earlier_defined, n_imports, result,
                   error, casts, cond_type >>

ctxVars == << vars_stack_top, ctx_pc, live, last >>

scanVars == << num_rules, main_memory, rules_matching, cond >>

uintVars == << scanned_data, uint_call >>

lookupVars == << root_struct, current_struct, vars_stack, lookup_call >>

msgVars == << expected, unexpected, message >>

wasmVars == << wasm_value, wasm_raw >>

chainVars == << certificates, signer, chain, chain_cert, chain_pc >>

magicVars == << type_cache, mime_type_cache, magic_flags, magic_data, magic_call, magic_invocations >>

emitVars == << loop_frames, emit_log >>

parseVars == << auth_input, auth_result >>

linkVars == << registry, exports, builtin_functions, module_functions, linker >>

vars == << compilerVars, ctxVars, scanVars, uintVars, lookupVars, msgVars, wasmVars, chainVars, magicVars, emitVars, parseVars, linkVars >>

nonCompilerVars == << ctxVars, scanVars, uintVars, lookupVars, msgVars, wasmVars, chainVars, magicVars, emitVars, parseVars, linkVars >>
nonCtxVars == << compilerVars, scanVars, uintVars, lookupVars, msgVars, wasmVars, chainVars, magicVars, emitVars, parseVars, linkVars >>
nonScanVars == << compilerVars, ctxVars, uintVars, lookupVars, msgVars, wasmVars, chainVars, magicVars, emitVars, parseVars, linkVars >>
nonUintVars == << compilerVars, ctxVars, scanVars, lookupVars, msgVars, wasmVars, chainVars, magicVars, emitVars, parseVars, linkVars >>
nonLookupVars == << compilerVars, ctxVars, scanVars, uintVars, msgVars, wasmVars, chainVars, magicVars, emitVars, parseVars, linkVars >>
nonMsgVars == << compilerVars, ctxVars, scanVars, uintVars, lookupVars, wasmVars, chainVars, magicVars, emitVars, parseVars, linkVars >>
nonWasmVars == << compilerVars, ctxVars, scanVars, uintVars, lookupVars, msgVars, chainVars, magicVars, emitVars, parseVars, linkVars >>
nonChainVars == << compilerVars, ctxVars, scanVars, uintVars, lookupVars, msgVars, wasmVars, magicVars, emitVars, parseVars, linkVars >>
nonMagicVars == << compilerVars, ctxVars, scanVars, uintVars, lookupVars, msgVars, wasmVars, chainVars, emitVars, parseVars, linkVars >>
\* all but the Context and the emission of a rule
nonEmitVars == << compilerVars, scanVars, uintVars, lookupVars, msgVars, wasmVars, chainVars, magicVars, parseVars, linkVars >>
nonParseVars == << compilerVars, ctxVars, scanVars, uintVars, lookupVars, msgVars, wasmVars, chainVars, magicVars, emitVars, linkVars >>
nonLinkVars == << compilerVars, ctxVars, scanVars, uintVars, lookupVars, msgVars, wasmVars, chainVars, magicVars, emitVars, parseVars >>

NoArtifact == [none |-> TRUE]

NoError == [kind |-> "none", subject |-> "none", spans |-> << >>]

\* a CompileError (compiler/errors.rs is not part of the sources read): its
\* kind and what it is about
CompileError(kind, subject) == [kind |-> kind, subject |-> subject, spans |-> << >>]

(***************************************************************************)
(* Helpers.                                                                *)
(***************************************************************************)
RECURSIVE SumSeq(_)
SumSeq(s) == IF s = << >> THEN 0 ELSE Head(s) + SumSeq(Tail(s))

RECURSIVE SeqsUpTo(_, _)
\* sequences over S of length at most n
SeqsUpTo(S, n) ==
    IF n = 0 THEN {<< >>}
    ELSE LET shorter == SeqsUpTo(S, n - 1)
         IN  shorter \cup {Append(s, x) : s \in {t \in shorter : Len(t) = n - 1}, x \in S}

Range(s) == {s[i] : i \in 1..Len(s)}

\* StringPool::get_or_intern: the id of `s`, interning it when new
PoolIndex(pool, s) == CHOOSE i \in 1..Len(pool) : pool[i] = s
\* (mutant) every call adds an entry
InternedPool_NoDedup(pool, s) == Append(pool, s)

InternedPool(pool, s) == IF s \in Range(pool) THEN pool ELSE Append(pool, s)
InternedId(pool, s) == PoolIndex(InternedPool(pool, s), s) - 1

\* SymbolTable::insert on frame `f`
FrameInsert(f, name, sym) ==
    [x \in (DOMAIN f) \cup {name} |-> IF x = name THEN sym ELSE f[x]]

EmptyFrame == [x \in {} |-> [kind |-> "Rule", val |-> 0]]

\* StackedSymbolTable::lookup: frames are searched from the top down
RECURSIVE StackLookup(_, _)
StackLookup(st, name) ==
    IF st = << >> THEN [kind |-> "None", val |-> 0]
    ELSE IF name \in DOMAIN st[Len(st)] THEN st[Len(st)][name]
    ELSE StackLookup(SubSeq(st, 1, Len(st) - 1), name)

Resolvable(st, name) == StackLookup(st, name).kind # "None"

\* Compiler::new, lines 96-108: the frame of the built-in functions holds
\* one symbol per public export, keyed by the export's name
BuiltinFrame ==
    LET pub == {i \in 1..Len(WASM_EXPORTS) : WASM_EXPORTS[i].public}
    IN  [n \in {WASM_EXPORTS[i].name : i \in pub} |->
            [kind |-> "Func",
             val  |-> CHOOSE i \in pub : WASM_EXPORTS[i].name = n]]

(***************************************************************************)
(* Context::new_var / Context::free_vars (compiler/mod.rs 583-611).        *)
(***************************************************************************)
\* the check new_var makes after bumping the top: the stack grew past
\* VARS_STACK_END
StackExhausted(top) ==
    top * SizeOfI64 > VARS_STACK_END - VARS_STACK_START

\* whether `n` nested new_var calls starting from an empty stack hit the panic
NestedVarsPanic(top, n) == \E k \in 1..n : StackExhausted(top + k)

\* the number of slots of the loop-variable region
VarsStackSlots == (VARS_STACK_END - VARS_STACK_START) \div SizeOfI64

(***************************************************************************)
(* Compiler::new (compiler/mod.rs 93-122).                                 *)
(***************************************************************************)
CompilerNew ==
    /\ pc = "ready"
    /\ symbol_table = << BuiltinFrame >>
    /\ ident_pool = << >>
    /\ rules = << >>
    /\ patterns = << >>
    /\ imported_modules = << >>
    /\ modules_struct = << >>
    /\ warnings = << >>
    /\ artifact = NoArtifact
    /\ src = << >>
    /\ n_sources = 0
    /\ declared = 0
    /\ emitted = << >>
    /\ ns_defined = {}
    /\ earlier_defined = {}
    /\ n_imports = 0
    /\ result = "none"
    /\ error = NoError
    /\ casts = {}
    /\ cond_type = << >>

(***************************************************************************)
(* Compiler::add_source (compiler/mod.rs 136-175).  The source is drawn as *)
(* the number of rule declarations of each of its namespaces; the content  *)
(* of each import and rule is drawn when the loop reaches it.              *)
(***************************************************************************)
SourceShapes(room) ==
    {s \in SeqsUpTo(0..Cardinality(RuleIdents), MaxNamespaces) : SumSeq(s) <= room}

\* a warning of the parser or of the semantic checker
Warning(kind, subject) == [kind |-> kind, subject |-> subject]

\* the warnings the parser may hand over with the AST of a source
AstWarnings == {<< >>, << Warning("ParserWarning", "none") >>}

\* lines 145-150: the parser built the AST, and its warnings are appended
\* to the compiler's
AddSource(shape, ast_warnings) ==
    /\ pc = "ready"
    /\ n_sources < MaxSources
    /\ n_sources' = n_sources + 1
    /\ src' = shape
    /\ declared' = declared + SumSeq(shape)
    /\ warnings' = warnings \o ast_warnings
    /\ pc' = "ns_loop"
    /\ UNCHANGED << symbol_table, ident_pool, rules, patterns, imported_modules,
                    modules_struct, artifact, emitted, ns_defined,
                    earlier_defined, n_imports, result, error, casts, cond_type >>
    /\ UNCHANGED nonCompilerVars

(***************************************************************************)
(* The parser's Error (parser/errors.rs 27-158).                           *)
(***************************************************************************)
\* the Span fields of each variant
ErrorFields ==
    [kind \in {"SyntaxError", "DuplicateTag", "DuplicateRule", "DuplicateString",
               "InvalidModifier", "DuplicateModifier", "InvalidModifierCombination",
               "UnusedString", "InvalidHexString", "InvalidRange", "InvalidInteger",
               "InvalidFloat", "InvalidEscapeSequence"} |->
        CASE kind = "DuplicateTag"      -> << "tag_span" >>
          [] kind = "DuplicateRule"     -> << "new_rule_name_span",
                                              "existing_rule_name_span" >>
          [] kind = "DuplicateString"   -> << "new_string_span", "existing_string_span" >>
          [] kind = "DuplicateModifier" -> << "modifier_span" >>
          [] kind = "InvalidModifierCombination" -> << "modifier1_span",
                                                       "modifier2_span" >>
          [] kind = "UnusedString"      -> << "string_ident_span" >>
          [] OTHER                      -> << "error_span" >>]

\* the #[label(..)] attributes of each variant: the field each label points at
ErrorLabels ==
    [kind \in DOMAIN ErrorFields |->
        CASE kind = "DuplicateTag"      -> << "tag_span" >>
          [] kind = "DuplicateRule"     -> << "new_rule_name_span",
                                              "existing_rule_name_span" >>
          [] kind = "DuplicateString"   -> << "new_string_span", "existing_string_span" >>
          [] kind = "DuplicateModifier" -> << "modifier_span" >>
          [] kind = "InvalidModifierCombination" -> << "modifier1_span",
                                                       "modifier2_span" >>
          [] kind = "UnusedString"      -> << "string_ident_span" >>
          [] OTHER                      -> << "error_span" >>]

\* fields that hold the span of an earlier occurrence
EarlierSpanFields == {"existing_rule_name_span", "existing_string_span",
                      "modifier1_span"}

\* the Error the parser makes of a kind, about `subject`, for an offending
\* occurrence at span `new` and, where the variant has a field for it, an
\* earlier occurrence at span `existing`
ParserError(kind, subject, new, existing) ==
    [kind    |-> kind,
     subject |-> subject,
     spans   |-> [f \in Range(ErrorFields[kind]) |->
                    IF f \in EarlierSpanFields THEN existing ELSE new]]

\* the spans the labels of the report of an Error point at
LabelSpans(e) ==
    {e.spans[ErrorLabels[e.kind][i]] : i \in 1..Len(ErrorLabels[e.kind])}

SyntaxError == ParserError("SyntaxError", "none", 1, 1)

\* line 147: build_ast(..)? returns the parser's error
AddSourceParseError(e) ==
    /\ pc = "ready"
    /\ n_sources < MaxSources
    /\ n_sources' = n_sources + 1
    /\ pc' = "err_return"
    /\ result' = "err"
    /\ error' = e
    /\ UNCHANGED << symbol_table, ident_pool, rules, patterns, imported_modules,
                    modules_struct, warnings, artifact, src, declared, emitted,
                    ns_defined, earlier_defined, n_imports , casts, cond_type >>
    /\ UNCHANGED nonCompilerVars

\* lines 152-155: the loop takes the next namespace and pushes its frame
EnterNamespace ==
    /\ pc = "ns_loop"
    /\ src # << >>
    /\ symbol_table' = Append(symbol_table, EmptyFrame)
    /\ ns_defined' = {}
    /\ pc' = "imports"
    /\ UNCHANGED << ident_pool, rules, patterns, imported_modules, modules_struct,
                    warnings, artifact, src, n_sources, casts, cond_type, declared, emitted,
                    earlier_defined, n_imports, result, error >>
    /\ UNCHANGED nonCompilerVars

\* Struct::add_field on the struct of all imported modules: a field keeps
\* its index once it has one
AddField(struct, name) ==
    IF name \in Range(struct) THEN struct ELSE Append(struct, name)

FieldIndex(struct, name) == (CHOOSE i \in 1..Len(struct) : struct[i] = name) - 1

\* (mutant) every module name is taken for a registered one
ModuleExists_Always(m) == TRUE

\* lines 322-323: BUILTIN_MODULES.get(import.module_name) is Some
ModuleExists(m) == m \in DOMAIN BUILTIN_MODULES

\* process_imports, lines 320-406: one import statement of a known module
ImportModule(m) ==
    /\ pc = "imports"
    /\ n_imports < MaxImports
    /\ ModuleExists(m)
    /\ n_imports' = n_imports + 1
    /\ imported_modules' = Append(imported_modules, InternedId(ident_pool, m))
    /\ ident_pool' = InternedPool(ident_pool, m)
    /\ modules_struct' = AddField(modules_struct, m)
    /\ symbol_table' =
          [symbol_table EXCEPT ![Len(symbol_table)] =
              FrameInsert(@, m, [kind |-> "FieldIndex",
                                 val  |-> FieldIndex(AddField(modules_struct, m), m)])]
    /\ ns_defined' = ns_defined \cup {m}
    /\ UNCHANGED << pc, rules, patterns, warnings, artifact, src, n_sources, casts, cond_type,
                    declared, emitted, earlier_defined, result, error >>
    /\ UNCHANGED nonCompilerVars

\* process_imports, lines 407-417, and the `?` of line 160
ImportUnknown(m) ==
    /\ pc = "imports"
    /\ n_imports < MaxImports
    /\ ~ModuleExists(m)
    /\ n_imports' = n_imports + 1
    /\ pc' = "err_return"
    /\ result' = "err"
    /\ error' = CompileError("UnknownModule", m)
    /\ UNCHANGED << symbol_table, ident_pool, rules, patterns, imported_modules,
                    modules_struct, warnings, artifact, src, n_sources, casts, cond_type, declared,
                    emitted, ns_defined, earlier_defined >>
    /\ UNCHANGED nonCompilerVars

\* line 420: process_imports returns Ok(())
EndImports ==
    /\ pc = "imports"
    /\ pc' = "rules"
    /\ UNCHANGED << symbol_table, ident_pool, rules, patterns, imported_modules,
                    modules_struct, warnings, artifact, src, n_sources, casts, cond_type, declared,
                    emitted, ns_defined, earlier_defined, n_imports, result, error >>
    /\ UNCHANGED nonCompilerVars

(***************************************************************************)
(* Compiler::process_rule (compiler/mod.rs 221-311).                       *)
(***************************************************************************)
\* static types the condition of a rule may have
CondTypes == {"Bool", "Integer", "Float", "String", "Struct"}

\* (mutant) a struct is accepted as condition too
AcceptedCondTypes_WithStruct == {"Bool", "Integer", "Float", "String", "Struct"}

\* line 291: the types semcheck! accepts for the condition
AcceptedCondTypes == {"Bool", "Integer", "Float", "String"}

\* warn_if_not_bool, line 297: the warnings after the check of a condition
\* of type `ty` of the rule `ident`
WarnIfNotBool(ws, ty, ident) ==
    IF ty # "Bool" THEN Append(ws, Warning("NonBooleanCondition", ident)) ELSE ws

\* (mutant) the parser lets a second rule of the same name through
UndeclaredIdents_Any(defined) == RuleIdents

\* Error::DuplicateRule (parser/errors.rs 44-59): the parser returns it for
\* a second rule of a name the namespace has already, so the names a next
\* rule of the namespace may have are those not defined in it
UndeclaredIdents(defined) == RuleIdents \ defined

\* the rule declarations the loop of line 165 may meet
RuleDecls ==
    [identifier : UndeclaredIdents(ns_defined),
     patterns   : PatternLists,
     semcheck   : {"ok", "err"},
     ty         : CondTypes,
     slots      : {0, 1, VarsStackSlots + 1}]

\* (mutant) one PatternId per rule: the length of `self.patterns` read once,
\* before the loop over the rule's patterns
NewPatternId_PerRule(pats) == Len(patterns)

\* line 238: PatternId is the index of the pattern in `self.patterns`
NewPatternId(pats) == Len(pats)

\* lines 229-247: the pairs (IdentId, PatternId) of the rule's patterns
RECURSIVE PatternPairs(_, _, _)
PatternPairs(pool, pats, decls) ==
    IF decls = << >> THEN << >>
    ELSE << << InternedId(pool, Head(decls)), NewPatternId(pats) >> >>
         \o PatternPairs(InternedPool(pool, Head(decls)),
                         Append(pats, "Pattern"), Tail(decls))

RECURSIVE InternAll(_, _)
InternAll(pool, names) ==
    IF names = << >> THEN pool
    ELSE InternAll(InternedPool(pool, Head(names)), Tail(names))

\* line 240: one Pattern {} is pushed per declared pattern
PushPatterns(pats, decls) == pats \o [i \in 1..Len(decls) |-> "Pattern"]

\* (mutant) the RuleId taken after the rule was pushed
NewRuleId_AfterPush(rs) == Len(rs) + 1

\* line 249: RuleId is the index the rule is about to take in `self.rules`
NewRuleId(rs) == Len(rs)

ProcessRule(r) ==
    /\ pc = "rules"
    /\ Head(src) > 0
    /\ r \in RuleDecls
    /\ LET pool1   == InternAll(ident_pool, r.patterns)
           pairs   == PatternPairs(ident_pool, patterns, r.patterns)
           rule_id == NewRuleId(rules)
           ns      == Len(symbol_table)
       IN  /\ patterns' = PushPatterns(patterns, r.patterns)
           /\ rules' = Append(rules, [ident    |-> InternedId(pool1, r.identifier),
                                      patterns |-> pairs])
           /\ ident_pool' = InternedPool(pool1, r.identifier)
           /\ cond_type' = Append(cond_type, r.ty)
           \* lines 276-283: the rule's symbol goes to the namespace's frame
           /\ symbol_table' =
                 [symbol_table EXCEPT ![ns] =
                     FrameInsert(@, r.identifier, [kind |-> "Rule", val |-> rule_id])]
           /\ ns_defined' = ns_defined \cup {r.identifier}
           /\ IF r.semcheck = "err"
              THEN \* lines 289-293: semcheck!(..)? returns the error
                   /\ pc' = "err_return"
                   /\ result' = "err"
                   /\ error' = CompileError("SemcheckError", r.identifier)
                   /\ UNCHANGED << emitted, src, warnings, casts >>
              ELSE IF r.ty \notin AcceptedCondTypes
              THEN \* lines 289-293: the condition has none of the accepted types
                   /\ pc' = "err_return"
                   /\ result' = "err"
                   /\ error' = CompileError("WrongType", r.identifier)
                   /\ UNCHANGED << emitted, src, warnings, casts >>
              ELSE \* line 297
                   /\ warnings' = WarnIfNotBool(warnings, r.ty, r.identifier)
                   /\ IF NestedVarsPanic(0, r.slots)
                      THEN \* lines 300-305: emit_rule_code panics inside new_var
                           /\ pc' = "panicked"
                           /\ result' = "panic"
                           /\ UNCHANGED << emitted, src, error, casts >>
                      ELSE /\ emitted' = Append(emitted, rule_id)
                           /\ casts' = IF r.ty # "Bool"
                                       THEN casts \cup {rule_id} ELSE casts
                           /\ src' = << Head(src) - 1 >> \o Tail(src)
                           /\ UNCHANGED << pc, result, error >>
    /\ UNCHANGED << imported_modules, modules_struct, artifact,
                    n_sources, declared, earlier_defined, n_imports >>
    /\ UNCHANGED nonCompilerVars

\* (mutant) the frame of the namespace is left on the stack
ExitNamespace_NoPop ==
    /\ pc = "rules"
    /\ Head(src) = 0
    /\ earlier_defined' = earlier_defined \cup ns_defined
    /\ ns_defined' = {}
    /\ src' = Tail(src)
    /\ pc' = "ns_loop"
    /\ UNCHANGED << symbol_table, ident_pool, rules, patterns, imported_modules,
                    modules_struct, warnings, artifact, n_sources, casts, cond_type, declared,
                    emitted, n_imports, result, error >>
    /\ UNCHANGED nonCompilerVars

\* lines 169-172: the namespace's rules are done, its frame is popped
ExitNamespace ==
    /\ pc = "rules"
    /\ Head(src) = 0
    /\ symbol_table' = SubSeq(symbol_table, 1, Len(symbol_table) - 1)
    /\ earlier_defined' = earlier_defined \cup ns_defined
    /\ ns_defined' = {}
    /\ src' = Tail(src)
    /\ pc' = "ns_loop"
    /\ UNCHANGED << ident_pool, rules, patterns, imported_modules, modules_struct,
                    warnings, artifact, n_sources, casts, cond_type, declared, emitted, n_imports,
                    result, error >>
    /\ UNCHANGED nonCompilerVars

\* (mutant) add_source returns Ok(self) before its loop over the namespaces
\* is done
ReturnOk_Early ==
    /\ pc = "ns_loop"
    /\ src' = << >>
    /\ pc' = "ready"
    /\ result' = "ok"
    /\ UNCHANGED << symbol_table, ident_pool, rules, patterns, imported_modules,
                    modules_struct, warnings, artifact, n_sources, casts, cond_type, declared,
                    emitted, ns_defined, earlier_defined, n_imports, error >>
    /\ UNCHANGED nonCompilerVars

\* line 174: Ok(self)
ReturnOk ==
    /\ pc = "ns_loop"
    /\ src = << >>
    /\ pc' = "ready"
    /\ result' = "ok"
    /\ UNCHANGED << symbol_table, ident_pool, rules, patterns, imported_modules,
                    modules_struct, warnings, artifact, src, n_sources, casts, cond_type, declared,
                    emitted, ns_defined, earlier_defined, n_imports, error >>
    /\ UNCHANGED nonCompilerVars

\* (mutant) add_source borrows the compiler: after an error the caller still
\* holds it, as the error left it
DropCompiler_Borrowed ==
    /\ pc \in {"err_return", "panicked"}
    /\ pc' = "ready"
    /\ UNCHANGED << symbol_table, ident_pool, rules, patterns, imported_modules,
                    modules_struct, warnings, artifact, src, n_sources, casts, cond_type, declared,
                    emitted, ns_defined, earlier_defined, n_imports, result, error >>
    /\ UNCHANGED nonCompilerVars

\* add_source takes `self` by value: when it returns Err, or unwinds, the
\* compiler and everything it owns is dropped
DropCompiler ==
    /\ pc \in {"err_return", "panicked"}
    /\ pc' = "dropped"
    /\ symbol_table' = << >>
    /\ ident_pool' = << >>
    /\ rules' = << >>
    /\ patterns' = << >>
    /\ imported_modules' = << >>
    /\ modules_struct' = << >>
    /\ warnings' = << >>
    /\ src' = << >>
    /\ ns_defined' = {}
    /\ UNCHANGED << artifact, n_sources, casts, cond_type, declared, emitted, earlier_defined,
                    n_imports, result, error >>
    /\ UNCHANGED nonCompilerVars

\* Compiler::build (compiler/mod.rs 181-204)
Build ==
    /\ pc = "ready"
    /\ artifact' = [ident_pool       |-> ident_pool,
                    imported_modules |-> imported_modules,
                    patterns         |-> patterns,
                    rules            |-> rules]
    /\ pc' = "built"
    /\ UNCHANGED << symbol_table, ident_pool, rules, patterns, imported_modules,
                    modules_struct, warnings, src, n_sources, casts, cond_type, declared, emitted,
                    ns_defined, earlier_defined, n_imports, result, error >>
    /\ UNCHANGED nonCompilerVars

(***************************************************************************)
(* The Context of one rule (compiler/mod.rs 256-272, 583-611).             *)
(***************************************************************************)
NoCall == [op |-> "none", index |-> 0, top_before |-> 0,
           prev_op |-> "none", prev_index |-> 0]

\* process_rule, lines 256-272: vars_stack_top: 0
ContextNew ==
    /\ vars_stack_top = 0
    /\ ctx_pc = "emitting"
    /\ live = << >>
    /\ last = NoCall

\* (mutant) the Var holds the top after the increment
NewVarIndex_Incremented(top) == top + 1

\* lines 584 and 591: the Var returned holds the top as it was at the call
NewVarIndex(top) == top

\* Context::new_var, lines 583-592
NewVar ==
    /\ ctx_pc = "emitting"
    /\ vars_stack_top' = vars_stack_top + 1
    /\ IF StackExhausted(vars_stack_top + 1)
       THEN \* line 589: panic!("too many nested loops")
            /\ ctx_pc' = "panicked"
            /\ live' = live
            /\ last' = [op |-> "new_var_panic", index |-> 0,
                        top_before |-> vars_stack_top,
                        prev_op |-> last.op, prev_index |-> last.index]
       ELSE /\ ctx_pc' = ctx_pc
            /\ live' = Append(live, NewVarIndex(vars_stack_top))
            /\ last' = [op |-> "new_var", index |-> NewVarIndex(vars_stack_top),
                        top_before |-> vars_stack_top,
                        prev_op |-> last.op, prev_index |-> last.index]
    /\ UNCHANGED nonCtxVars

\* (mutant) the slot of the handle itself is kept
FreedTop_KeepsSlot(index) == index + 1

\* line 610: self.vars_stack_top = top.index
FreedTop(index) == index

\* Context::free_vars, lines 609-611, called with the i-th oldest of the
\* Vars that are still held
FreeVars(i) ==
    /\ ctx_pc = "emitting"
    /\ i \in 1..Len(live)
    /\ vars_stack_top' = FreedTop(live[i])
    /\ live' = SubSeq(live, 1, i - 1)
    /\ last' = [op |-> "free_vars", index |-> live[i],
                top_before |-> vars_stack_top,
                prev_op |-> "none", prev_index |-> 0]
    /\ UNCHANGED ctx_pc
    /\ UNCHANGED nonCtxVars

(***************************************************************************)
(* Run of main over a rule set: rule_match (wasm/mod.rs 505-524) and the   *)
(* code emitted for each rule.                                             *)
(***************************************************************************)
\* bytes of the matching-rules bitmap that are modelled, one more than a rule
\* set of MaxScanRules + 1 rules needs
BitmapBytes == (MaxScanRules + 1 + 7) \div 8 + 1

BitmapAddrs == MATCHING_RULES_BITMAP_BASE .. (MATCHING_RULES_BITMAP_BASE + BitmapBytes - 1)

\* a scan context over a rule set of n rules, with zeroed memory and nothing
\* matched yet
\* the bytes of main memory that are modelled: the first and the last one
\* of the space for loop variables and of the space for lookup indexes, and
\* the bitmap
MemAddrs ==
    {VARS_STACK_START, VARS_STACK_END - 1, LOOKUP_INDEXES_START, LOOKUP_INDEXES_END - 1}
    \cup BitmapAddrs

ScanContextNew(n) ==
    /\ num_rules = n
    /\ main_memory = [a \in MemAddrs |-> 0]
    /\ rules_matching = << >>
    /\ cond = << >>

\* (mutant) the bits of a byte are counted from the most significant one
BitSliceSet_Msb0(mem, base, idx) ==
    LET addr == base + (idx \div 8)
        b    == 7 - (idx % 8)
    IN  [mem EXCEPT ![addr] = IF (@ \div (2 ^ b)) % 2 = 1 THEN @ ELSE @ + (2 ^ b)]

\* BitSlice::<u8, Lsb0>::from_slice_mut(&mut main_mem[base..]).set(idx, true),
\* lines 516-521: bit idx is bit idx % 8, counted from the least significant one,
\* of the byte at base + idx / 8
BitSliceSet(mem, base, idx) ==
    LET addr == base + (idx \div 8)
        b    == idx % 8
    IN  [mem EXCEPT ![addr] = IF (@ \div (2 ^ b)) % 2 = 1 THEN @ ELSE @ + (2 ^ b)]

\* (mutant) the bit after the rule's own
RuleMatchBit_Next(rule_id) == rule_id + 1

\* line 521: bits.set(rule_id as usize, true)
RuleMatchBit(rule_id) == rule_id

\* rule_match, lines 505-524
RuleMatch(rule_id) ==
    /\ main_memory' = BitSliceSet(main_memory, MATCHING_RULES_BITMAP_BASE,
                                  RuleMatchBit(rule_id))
    /\ rules_matching' = Append(rules_matching, rule_id)

CondOutcomes == {"true", "false", "undef"}

\* the code emitted for one rule: the condition is computed, and rule_match is
\* called with the rule's RuleId if it is defined and true
RunRule(outcome) ==
    /\ Len(cond) < num_rules
    /\ cond' = Append(cond, outcome)
    /\ IF outcome = "true"
       THEN RuleMatch(Len(cond))
       ELSE UNCHANGED << main_memory, rules_matching >>
    /\ UNCHANGED num_rules
    /\ UNCHANGED nonScanVars

\* a call of rule_match, lines 505-524, with the RuleId of any rule of the
\* rule set
CallRuleMatch(rule_id) ==
    /\ rule_id \in 0..(num_rules - 1)
    /\ Len(rules_matching) < MaxMatches
    /\ RuleMatch(rule_id)
    /\ UNCHANGED << num_rules, cond >>
    /\ UNCHANGED nonScanVars

(***************************************************************************)
(* The uint primitives (wasm/mod.rs 1060-1092).  An i64 is kept as the     *)
(* eight bytes of its two's complement form, least significant first.      *)
(***************************************************************************)
\* values the bytes of the scanned data are drawn from
ByteValues == {1, 200}

\* offsets the primitives are called with
Offsets == (0 - 2) .. (MaxDataLen + 1)

\* lines 1085-1092: the instances of gen_uint_fn
UintFns ==
    [name \in {"uint8", "uint16", "uint32", "uint64",
               "uint8be", "uint16be", "uint32be", "uint64be"} |->
        CASE name = "uint8"    -> [size |-> 1, from_fn |-> "from_le_bytes"]
          [] name = "uint16"   -> [size |-> 2, from_fn |-> "from_le_bytes"]
          [] name = "uint32"   -> [size |-> 4, from_fn |-> "from_le_bytes"]
          [] name = "uint64"   -> [size |-> 8, from_fn |-> "from_le_bytes"]
          [] name = "uint8be"  -> [size |-> 1, from_fn |-> "from_be_bytes"]
          [] name = "uint16be" -> [size |-> 2, from_fn |-> "from_be_bytes"]
          [] name = "uint32be" -> [size |-> 4, from_fn |-> "from_be_bytes"]
          [] name = "uint64be" -> [size |-> 8, from_fn |-> "from_be_bytes"]]

Undef == [kind |-> "Undef"]
Panicked == [kind |-> "panic"]
OkI64(bytes) == [kind |-> "Ok", value |-> bytes]

\* a ScanContext over some data, before any call
ScanDataNew(data) ==
    /\ scanned_data = data
    /\ uint_call = [fn |-> "none", offset |-> 0, ret |-> Undef]

\* line 1067: usize::try_from(offset), usize being 64 bits wide
UsizeTryFromOk(offset) == offset >= 0

\* (mutant) the end of the range must lie before the end of the slice
SliceGet_EndExcluded(s, from, to) ==
    IF from <= to /\ to < Len(s)
    THEN [some |-> TRUE, bytes |-> SubSeq(s, from + 1, to)]
    ELSE [some |-> FALSE, bytes |-> << >>]

\* line 1071: <[u8]>::get(from..to)
SliceGet(s, from, to) ==
    IF from <= to /\ to <= Len(s)
    THEN [some |-> TRUE, bytes |-> SubSeq(s, from + 1, to)]
    ELSE [some |-> FALSE, bytes |-> << >>]

ReverseSeq(s) == [i \in 1..Len(s) |-> s[Len(s) + 1 - i]]

\* line 1073: <$return_type>::from_le_bytes / from_be_bytes; the value is given
\* as its bytes, least significant first
FromBytes(from_fn, bytes) ==
    IF from_fn = "from_le_bytes" THEN bytes ELSE ReverseSeq(bytes)

\* line 1076: value as i64, from an unsigned type of at most 64 bits
AsI64(value) == [i \in 1..8 |-> IF i <= Len(value) THEN value[i] ELSE 0]

\* the body of gen_uint_fn, lines 1067-1080
UintRead(fn, data, offset) ==
    IF UsizeTryFromOk(offset)
    THEN LET got == SliceGet(data, offset, offset + UintFns[fn].size)
         IN  IF got.some
             THEN IF Len(got.bytes) = UintFns[fn].size
                  THEN OkI64(AsI64(FromBytes(UintFns[fn].from_fn, got.bytes)))
                  ELSE Panicked     \* line 1074: try_into().unwrap()
             ELSE Undef
    ELSE Undef

\* a call of one of the primitives from WASM; the primitives read the
\* context and leave it as it was, so the first call over each input is
\* followed
CallUint(fn, offset) ==
    /\ uint_call.fn = "none"
    /\ uint_call' = [fn |-> fn, offset |-> offset,
                     ret |-> UintRead(fn, scanned_data, offset)]
    /\ UNCHANGED scanned_data
    /\ UNCHANGED nonUintVars

(***************************************************************************)
(* Values of module data (TypeValue) and the lookup primitives             *)
(* (wasm/mod.rs 588-1009).                                                 *)
(***************************************************************************)
Kinds == << "Integer", "Float", "Bool", "String", "Struct" >>

Unknown == [ty |-> "Unknown"]
NoStruct == [ty |-> "None"]
Scalar(kind, n) == [ty |-> kind, some |-> TRUE, v |-> n]
StructOf(fields) == [ty |-> "Struct", fields |-> fields]
ArrayOf(kind, items) == [ty |-> "Array", of |-> kind, items |-> items]
MapOf(keys, kind, entries) == [ty |-> "Map", keys |-> keys, of |-> kind, entries |-> entries]

\* a struct with an integer field and an array of integers
InnerStruct(n) ==
    StructOf(<< Scalar("Integer", n),
                ArrayOf("Integer", [i \in 1..n |-> Scalar("Integer", 10 * n + i)]) >>)

\* the k-th value of a kind
Sample(kind, k) == IF kind = "Struct" THEN InnerStruct(k) ELSE Scalar(kind, k)

StringKeys == << "k1", "k2", "k3", "k4" >>

\* the module data scanned: field j-1, j-1+5 and j-1+10 are an array, a map
\* with integer keys 1..n and a map with string keys of the j-th kind, with
\* n items each; field 15 is a struct
RootStruct(n) ==
    StructOf(
        [j \in 1..5 |-> ArrayOf(Kinds[j], [i \in 1..n |-> Sample(Kinds[j], i)])]
        \o [j \in 1..5 |-> MapOf("Integer", Kinds[j],
                                [i \in 1..n |-> Sample(Kinds[j], i)])]
        \o [j \in 1..5 |-> MapOf("String", Kinds[j],
                                [i \in {StringKeys[k] : k \in 1..n} |->
                                    Sample(Kinds[j],
                                           CHOOSE k \in 1..n : StringKeys[k] = i)])]
        \o << InnerStruct(2) >>)

NoLookup == [fn |-> "none", arg |-> 0, len |-> 0, keys |-> {}, var |-> 0 - 1,
             ret |-> [kind |-> "none"], vars_before |-> << >>,
             lookup_start |-> 0 - 1, lookup_stack |-> << >>,
             struct_before |-> NoStruct]

\* a scan context over module data whose arrays and maps have n items
ScanStructsNew(n) ==
    /\ root_struct = RootStruct(n)
    /\ current_struct = NoStruct
    /\ vars_stack = << >>
    /\ lookup_call = NoLookup

Resolved(tv) == [panic |-> FALSE, type_value |-> tv]
ResolvePanic == [panic |-> TRUE, type_value |-> Unknown]

\* lines 641-648: the walk over the indexes of the lookup stack
RECURSIVE WalkFields(_, _, _)
WalkFields(structure, path, final_field) ==
    IF path = << >>
    THEN Resolved(final_field)
    ELSE IF Head(path) < 0 \/ Head(path) >= Len(structure.fields)
         THEN ResolvePanic        \* line 643: field_by_index(..).unwrap()
         ELSE LET field == structure.fields[Head(path) + 1]
              IN  WalkFields(IF field.ty = "Struct" THEN field ELSE structure,
                             Tail(path), field)

\* (mutant) the current struct is not looked at
LookupCommon_NoCurrent(cur, vstack, root, lookup_start, lookup_stack) ==
    IF Len(lookup_stack) > 0
    THEN IF lookup_start # 0 - 1
         THEN IF lookup_start < 0 \/ lookup_start >= Len(vstack)
              THEN ResolvePanic
              ELSE IF vstack[lookup_start + 1].ty = "Struct"
                   THEN WalkFields(vstack[lookup_start + 1], lookup_stack, Unknown)
                   ELSE ResolvePanic
         ELSE WalkFields(root, lookup_stack, Unknown)
    ELSE IF lookup_start # 0 - 1
         THEN IF lookup_start < 0 \/ lookup_start >= Len(vstack)
              THEN ResolvePanic
              ELSE Resolved(vstack[lookup_start + 1])
         ELSE ResolvePanic

\* lookup_common, lines 588-657: the value the lookup stack leads to
LookupCommon(cur, vstack, root, lookup_start, lookup_stack) ==
    IF Len(lookup_stack) > 0
    THEN IF cur.ty = "Struct"
         THEN WalkFields(cur, lookup_stack, Unknown)
         ELSE IF lookup_start # 0 - 1
              THEN IF lookup_start < 0 \/ lookup_start >= Len(vstack)
                   THEN ResolvePanic     \* line 626: index out of bounds
                   ELSE IF vstack[lookup_start + 1].ty = "Struct"
                        THEN WalkFields(vstack[lookup_start + 1], lookup_stack, Unknown)
                        ELSE ResolvePanic    \* line 631: unreachable!
              ELSE WalkFields(root, lookup_stack, Unknown)
    ELSE IF lookup_start # 0 - 1
         THEN IF lookup_start < 0 \/ lookup_start >= Len(vstack)
              THEN ResolvePanic          \* line 651: index out of bounds
              ELSE Resolved(vstack[lookup_start + 1])
         ELSE ResolvePanic               \* line 653: unreachable!

\* lines 746-748, 750 and 774: the primitives made by gen_array_lookup_fn, and
\* array_lookup_string and array_lookup_struct, with the kind of array each
\* of them takes
ArrayLookupFns ==
    [name \in {"array_lookup_integer", "array_lookup_float", "array_lookup_bool",
               "array_lookup_string", "array_lookup_struct"} |->
        CASE name = "array_lookup_integer" -> "Integer"
          [] name = "array_lookup_float"   -> "Float"
          [] name = "array_lookup_bool"    -> "Bool"
          [] name = "array_lookup_string"  -> "String"
          [] name = "array_lookup_struct"  -> "Struct"]

\* lines 858-1009: the map lookup primitives, with the kind of key and of value
MapLookupFns ==
    [name \in {"map_lookup_string_integer", "map_lookup_string_float",
               "map_lookup_string_bool", "map_lookup_integer_integer",
               "map_lookup_integer_float", "map_lookup_integer_bool",
               "map_lookup_integer_string", "map_lookup_string_string",
               "map_lookup_integer_struct", "map_lookup_string_struct"} |->
        CASE name = "map_lookup_string_integer"  -> [keys |-> "String",  of |-> "Integer"]
          [] name = "map_lookup_string_float"    -> [keys |-> "String",  of |-> "Float"]
          [] name = "map_lookup_string_bool"     -> [keys |-> "String",  of |-> "Bool"]
          [] name = "map_lookup_integer_integer" -> [keys |-> "Integer", of |-> "Integer"]
          [] name = "map_lookup_integer_float"   -> [keys |-> "Integer", of |-> "Float"]
          [] name = "map_lookup_integer_bool"    -> [keys |-> "Integer", of |-> "Bool"]
          [] name = "map_lookup_integer_string"  -> [keys |-> "Integer", of |-> "String"]
          [] name = "map_lookup_string_string"   -> [keys |-> "String",  of |-> "String"]
          [] name = "map_lookup_integer_struct"  -> [keys |-> "Integer", of |-> "Struct"]
          [] name = "map_lookup_string_struct"   -> [keys |-> "String",  of |-> "Struct"]]

LookupOk(v) == [kind |-> "Ok", value |-> v]

\* what a primitive leaves: its result, current_struct and vars_stack
Outcome(ret, cur, vstack) == [ret |-> ret, current_struct |-> cur, vars_stack |-> vstack]

\* (mutant) a negative index counts from zero
AsUsize_Magnitude(index) ==
    [big |-> FALSE, n |-> IF index < 0 THEN (0 - index) - 1 ELSE index]

\* `index as usize` of an i64: a negative index becomes a number of 2^63 or
\* more, which is more than any Vec holds
AsUsize(index) ==
    IF index < 0 THEN [big |-> TRUE, n |-> 0] ELSE [big |-> FALSE, n |-> index]

\* Vec::get
VecGet(items, i) ==
    IF ~i.big /\ i.n < Len(items)
    THEN [some |-> TRUE, item |-> items[i.n + 1]]
    ELSE [some |-> FALSE, item |-> Unknown]

\* lines 788-795: vars.resize(index + 1, Unknown) if needed; vars[index] = value
VarsSet(vstack, index, value) ==
    [i \in 1..(IF Len(vstack) <= index THEN index + 1 ELSE Len(vstack)) |->
        IF i = index + 1 THEN value
        ELSE IF i <= Len(vstack) THEN vstack[i] ELSE Unknown]

\* the array lookup primitives, lines 719-803
ArrayLookup(fn, cur, vstack, root, lookup_start, lookup_stack, index, var) ==
    IF fn # "array_lookup_struct" /\ var # 0 - 1
    THEN Outcome(Panicked, cur, vstack)          \* lines 729, 758: assert_eq!(var, -1)
    ELSE LET r == LookupCommon(cur, vstack, root, lookup_start, lookup_stack)
         IN  IF r.panic
             THEN Outcome(Panicked, cur, vstack)
             ELSE IF r.type_value.ty # "Array"
                  THEN Outcome(Panicked, NoStruct, vstack)   \* as_array().unwrap()
                  ELSE IF r.type_value.of # ArrayLookupFns[fn]
                  THEN Outcome(Panicked, NoStruct, vstack)   \* as_integer_array() etc.
                  ELSE LET got == VecGet(r.type_value.items, AsUsize(index))
                       IN  IF ~got.some
                           THEN Outcome(Undef, NoStruct, vstack)
                           ELSE IF fn = "array_lookup_struct"
                           THEN Outcome(LookupOk("unit"), got.item,
                                        IF var # 0 - 1
                                        THEN VarsSet(vstack, var, got.item)
                                        ELSE vstack)
                           ELSE Outcome(LookupOk(got.item.v), NoStruct, vstack)

\* the map lookup primitives, lines 805-1009
MapLookup(fn, cur, vstack, root, lookup_start, lookup_stack, key) ==
    LET r == LookupCommon(cur, vstack, root, lookup_start, lookup_stack)
    IN  IF r.panic
        THEN Outcome(Panicked, cur, vstack)
        ELSE IF r.type_value.ty # "Map"
             THEN Outcome(Panicked, NoStruct, vstack)        \* as_map().unwrap()
             ELSE IF r.type_value.keys # MapLookupFns[fn].keys
             THEN Outcome(Panicked, NoStruct, vstack)        \* unreachable!
             ELSE IF key \notin DOMAIN r.type_value.entries
             THEN Outcome(Undef, NoStruct, vstack)
             ELSE LET value == r.type_value.entries[key]
                      of    == MapLookupFns[fn].of
                  IN  IF of = "Struct"
                      THEN IF value.ty = "Struct"
                           THEN Outcome(LookupOk("unit"), value, vstack)
                           ELSE Outcome(Panicked, NoStruct, vstack)   \* unreachable!
                      ELSE IF of = "String"
                      THEN IF value.ty = "String" /\ value.some
                           THEN Outcome(LookupOk(value.v), NoStruct, vstack)
                           ELSE Outcome(Panicked, NoStruct, vstack)   \* as_bstr().unwrap()
                      ELSE IF value.ty = of /\ value.some
                           THEN Outcome(LookupOk(value.v), NoStruct, vstack)
                           ELSE Outcome(Undef, NoStruct, vstack)

\* lookup stacks the emitted code writes before a call
LookupStacks == {<< >>} \cup {<< i >> : i \in 0..15} \cup {<< 15, 0 >>, << 15, 1 >>}

\* slots a lookup starts at or a struct is stored to
Slots == {0 - 1, 0, 1}

\* the emitted code passes a lookup stack that leads to a value of the type
\* the primitive is for
LeadsTo(lookup_start, lookup_stack, ty) ==
    LET r == LookupCommon(current_struct, vars_stack, root_struct,
                          lookup_start, lookup_stack)
    IN  ~r.panic /\ r.type_value.ty = ty

\* keys a map lookup of a key kind is called with
KeysOf(kind) ==
    IF kind = "Integer" THEN 0..(MaxArrayLen + 1)
    ELSE {StringKeys[k] : k \in 1..MaxArrayLen} \cup {"zz"}

\* a call of an array lookup primitive from WASM, after the emitted code has
\* set lookup_start and written the lookup stack; the primitive called is the
\* one for the kind of the array, and only array_lookup_struct is given a
\* slot to store to
CallArrayLookup(lookup_start, lookup_stack) ==
    /\ lookup_call.ret.kind # "panic"
    /\ LeadsTo(lookup_start, lookup_stack, "Array")
    /\ LET array == LookupCommon(current_struct, vars_stack, root_struct,
                                 lookup_start, lookup_stack).type_value
       IN  \E fn \in {f \in DOMAIN ArrayLookupFns : ArrayLookupFns[f] = array.of},
              index \in (0 - 2)..(MaxArrayLen + 1), var \in Slots :
                LET out == ArrayLookup(fn, current_struct, vars_stack, root_struct,
                                       lookup_start, lookup_stack, index, var)
                IN  /\ fn # "array_lookup_struct" => var = 0 - 1
                    /\ current_struct' = out.current_struct
                    /\ vars_stack' = out.vars_stack
                    /\ lookup_call' = [fn |-> fn, arg |-> index,
                                       len |-> Len(array.items), keys |-> {},
                                       var |-> var, ret |-> out.ret,
                                       vars_before |-> vars_stack,
                                       lookup_start |-> lookup_start,
                                       lookup_stack |-> lookup_stack,
                                       struct_before |-> current_struct]
    /\ UNCHANGED root_struct
    /\ UNCHANGED nonLookupVars

\* a call of a map lookup primitive from WASM, likewise
CallMapLookup(lookup_start, lookup_stack) ==
    /\ lookup_call.ret.kind # "panic"
    /\ LeadsTo(lookup_start, lookup_stack, "Map")
    /\ LET map == LookupCommon(current_struct, vars_stack, root_struct,
                               lookup_start, lookup_stack).type_value
       IN  \E fn \in {f \in DOMAIN MapLookupFns :
                        /\ MapLookupFns[f].keys = map.keys
                        /\ MapLookupFns[f].of = map.of},
              key \in KeysOf(map.keys) :
                LET out == MapLookup(fn, current_struct, vars_stack, root_struct,
                                     lookup_start, lookup_stack, key)
                IN  /\ current_struct' = out.current_struct
                    /\ vars_stack' = out.vars_stack
                    /\ lookup_call' = [fn |-> fn, arg |-> key, len |-> 0,
                                       keys |-> DOMAIN map.entries, var |-> 0 - 1,
                                       ret |-> out.ret, vars_before |-> vars_stack,
                                       lookup_start |-> lookup_start,
                                       lookup_stack |-> lookup_stack,
                                       struct_before |-> current_struct]
    /\ UNCHANGED root_struct
    /\ UNCHANGED nonLookupVars

(***************************************************************************)
(* Error::syntax_error_message (parser/errors.rs 161-243).                 *)
(***************************************************************************)
\* the GrammarRules the lists are made of: the two the message leaves out,
\* two that print the same and two of which one's print is a prefix of the
\* other's
GrammarRules == {"COMMENT", "WHITESPACE", "integer_lit", "float_lit",
                 "hex_byte", "hex_pattern"}

\* a String, as its bytes: str's Ord, which sort() uses, compares them
Str ==
    [number     |-> << 110, 117, 109, 98, 101, 114 >>,
     byte       |-> << 98, 121, 116, 101 >>,
     bytes      |-> << 98, 121, 116, 101, 115 >>,
     COMMENT    |-> << 67, 79, 77, 77, 69, 78, 84 >>,
     WHITESPACE |-> << 87, 72, 73, 84, 69, 83, 80, 65, 67, 69 >>]

\* the `f` of the caller.  Lines 247-342: printable_string, which has no
\* case for COMMENT and WHITESPACE (unreachable!, line 340); for these the
\* name of the rule stands, so that a mention of them shows in the message
PrintableString(rule) ==
    CASE rule = "integer_lit" -> Str.number
      [] rule = "float_lit"   -> Str.number
      [] rule = "hex_byte"    -> Str.byte
      [] rule = "hex_pattern" -> Str.bytes
      [] rule = "COMMENT"     -> Str.COMMENT
      [] rule = "WHITESPACE"  -> Str.WHITESPACE

\* str's Ord: a < b, byte by byte, a proper prefix being less
RECURSIVE StrLess(_, _)
StrLess(a, b) ==
    IF b = << >> THEN FALSE
    ELSE IF a = << >> THEN TRUE
    ELSE IF Head(a) # Head(b) THEN Head(a) < Head(b)
    ELSE StrLess(Tail(a), Tail(b))

\* the pieces format! puts together: text of the format string, and strings
Lit(text) == [lit |-> text]
Name(string) == [name |-> string]

NoMessage == << Lit("<not called>") >>

\* (mutant) every rule is kept
FilterRules_None(rules_list) == rules_list

\* lines 181-193: COMMENT and WHITESPACE are removed from a list
FilterRules(rules_list) ==
    LET Kept(r) == r # "COMMENT" /\ r # "WHITESPACE"
    IN  SelectSeq(rules_list, Kept)

\* line 227: strings.sort()
RECURSIVE SortStrings(_)
SortStrings(strings) ==
    IF strings = << >> THEN << >>
    ELSE LET least == CHOOSE i \in 1..Len(strings) :
                         \A j \in 1..Len(strings) : ~ StrLess(strings[j], strings[i])
         IN  << strings[least] >>
             \o SortStrings([k \in 1..(Len(strings) - 1) |->
                               IF k < least THEN strings[k] ELSE strings[k + 1]])

\* line 230: strings.dedup() removes consecutive repeated items
RECURSIVE Dedup(_)
Dedup(strings) ==
    IF Len(strings) <= 1 THEN strings
    ELSE IF strings[1] = strings[2] THEN Dedup(Tail(strings))
    ELSE << strings[1] >> \o Dedup(Tail(strings))

\* strings.join(", ")
RECURSIVE JoinComma(_)
JoinComma(strings) ==
    IF Len(strings) = 1 THEN << Name(strings[1]) >>
    ELSE << Name(strings[1]), Lit(", ") >> \o JoinComma(Tail(strings))

\* lines 216-243: `strings[..l - 1]` with l = 0 panics
EnumeratePanic == << Lit("<panic>") >>

EnumerateGrammarRules(rules_list) ==
    LET mapped  == [i \in 1..Len(rules_list) |-> PrintableString(rules_list[i])]
        strings == Dedup(SortStrings(mapped))
        l       == Len(strings)
    IN  CASE l = 1 -> << Name(strings[1]) >>
          [] l = 2 -> << Name(strings[1]), Lit(" or "), Name(strings[2]) >>
          [] l = 0 -> EnumeratePanic
          [] OTHER -> JoinComma(SubSeq(strings, 1, l - 1))
                      \o << Lit(", or "), Name(strings[l]) >>

\* lines 161-214
SyntaxErrorMessageOf(expected_rules, unexpected_rules) ==
    LET exp   == FilterRules(expected_rules)
        unexp == FilterRules(unexpected_rules)
    IN  CASE unexp # << >> /\ exp # << >> ->
                << Lit("unexpected ") >> \o EnumerateGrammarRules(unexp)
                \o << Lit("; expected ") >> \o EnumerateGrammarRules(exp)
          [] unexp # << >> /\ exp = << >> ->
                << Lit("unexpected ") >> \o EnumerateGrammarRules(unexp)
          [] unexp = << >> /\ exp # << >> ->
                << Lit("expected ") >> \o EnumerateGrammarRules(exp)
          [] OTHER -> << Lit("unknown parsing error") >>

\* the parser is at a position with these two lists
SyntaxErrorNew(expected_rules, unexpected_rules) ==
    /\ expected = expected_rules
    /\ unexpected = unexpected_rules
    /\ message = NoMessage

SyntaxErrorMessage ==
    /\ message = NoMessage
    /\ message' = SyntaxErrorMessageOf(expected, unexpected)
    /\ UNCHANGED << expected, unexpected >>
    /\ UNCHANGED nonMsgVars

(***************************************************************************)
(* ToWasm and MaybeUndef (wasm/mod.rs 244-314).                            *)
(***************************************************************************)
\* the types T: ToWasm + Default a host function may return in a MaybeUndef
WasmTypes == {"unit", "i32", "i64", "f32", "bool"}

WasmUnit == [ty |-> "unit"]

\* f32::to_bits of the floats of the model
F32Bits == [f \in {"0.0", "0.5", "1.0"} |->
               CASE f = "0.0" -> 0
                 [] f = "0.5" -> 1056964608
                 [] f = "1.0" -> 1065353216]

\* the values of type `ty`
WasmValuesOf(ty) ==
    CASE ty = "unit" -> {WasmUnit}
      [] ty = "bool" -> {[ty |-> "bool", b |-> b] : b \in BOOLEAN}
      [] ty = "f32"  -> {[ty |-> "f32", f |-> f] : f \in DOMAIN F32Bits}
      [] OTHER       -> {[ty |-> ty, v |-> n] : n \in (0 - MaxWasmInt)..MaxWasmInt}

\* lines 311-314: enum MaybeUndef<T> { Ok(T), Undef }
MaybeUndefOk(value) == [ty |-> "MaybeUndef", of |-> value.ty, ok |-> value]
MaybeUndefUndef(ty) == [ty |-> "MaybeUndef", of |-> ty, undef |-> TRUE]

\* what a host function may return: a T, or a MaybeUndef<T>
WasmValues ==
    LET plain == UNION {WasmValuesOf(ty) : ty \in WasmTypes}
    IN  plain \cup {MaybeUndefOk(v) : v \in plain}
              \cup {MaybeUndefUndef(ty) : ty \in WasmTypes}

\* T::default()
Default(ty) ==
    CASE ty = "unit" -> WasmUnit
      [] ty = "bool" -> [ty |-> "bool", b |-> FALSE]
      [] ty = "f32"  -> [ty |-> "f32", f |-> "0.0"]
      [] OTHER       -> [ty |-> ty, v |-> 0]

ValRaw(ty, bits) == [raw |-> ty, bits |-> bits]

\* lines 248-282: to_wasm of (), i32, i64, f32 and bool
PlainToWasm(value) ==
    CASE value.ty = "unit" -> << >>
      [] value.ty = "i32"  -> << ValRaw("i32", value.v) >>
      [] value.ty = "i64"  -> << ValRaw("i64", value.v) >>
      [] value.ty = "f32"  -> << ValRaw("f32", F32Bits[value.f]) >>
      [] value.ty = "bool" -> << ValRaw("i32", IF value.b THEN 1 ELSE 0) >>

\* (mutant) the flag comes first
MaybeUndefToWasm_FlagFirst(value) ==
    IF "ok" \in DOMAIN value
    THEN << ValRaw("i32", 0) >> \o PlainToWasm(value.ok)
    ELSE << ValRaw("i32", 1) >> \o PlainToWasm(Default(value.of))

\* lines 290-308: to_wasm of MaybeUndef<T>
MaybeUndefToWasm(value) ==
    IF "ok" \in DOMAIN value
    THEN Append(PlainToWasm(value.ok), ValRaw("i32", 0))
    ELSE Append(PlainToWasm(Default(value.of)), ValRaw("i32", 1))

ToWasm(value) ==
    IF value.ty = "MaybeUndef" THEN MaybeUndefToWasm(value) ELSE PlainToWasm(value)

NotConverted == << ValRaw("none", 0) >>

\* a host function is about to return `value`
ToWasmNew(value) ==
    /\ wasm_value = value
    /\ wasm_raw = NotConverted

ToWasmCall ==
    /\ wasm_raw = NotConverted
    /\ wasm_raw' = ToWasm(wasm_value)
    /\ UNCHANGED wasm_value
    /\ UNCHANGED nonWasmVars

(***************************************************************************)
(* AuthenticodeSignature::build_chain (pe/authenticode.rs 572-609).        *)
(***************************************************************************)
\* names that appear as subject and as issuer of the certificates
CertNames == {"A", "B"}
SerialNumbers == {1, 2}

\* the fields of a Certificate's tbs_certificate that build_chain reads
Certificates == [serial_number : SerialNumbers, subject : CertNames, issuer : CertNames]

\* Iterator::find: the index of the first item of `s` that satisfies Test,
\* or 0 for None
Find(s, Test(_)) ==
    IF \E i \in 1..Len(s) : Test(s[i])
    THEN CHOOSE i \in 1..Len(s) : Test(s[i]) /\ \A j \in 1..(i - 1) : ~ Test(s[j])
    ELSE 0

\* a signature with these certificates, before build_chain is called
SignatureNew(certs, issuer_and_serial_number) ==
    /\ certificates = certs
    /\ signer = issuer_and_serial_number
    /\ chain = << >>
    /\ chain_cert = 0
    /\ chain_pc = "find"

\* lines 585-588: the first certificate with the serial number asked for
FindRequested(certs, issuer_and_serial_number) ==
    LET SameSerial(c) == c.serial_number = issuer_and_serial_number.serial_number
    IN  Find(certs, SameSerial)

\* lines 583-591: `cert` is the requested certificate, or vec![] is returned
BuildChainFind ==
    /\ chain_pc = "find"
    /\ chain_cert' = FindRequested(certificates, signer)
    /\ chain_pc' = IF chain_cert' = 0 THEN "returned" ELSE "loop"
    /\ UNCHANGED << certificates, signer, chain >>
    /\ UNCHANGED nonChainVars

\* lines 602-604: the first certificate whose subject is the issuer of `cert`
IssuerOf(certs, cert) ==
    LET IsIssuer(c) == c.subject = cert.issuer
    IN  Find(certs, IsIssuer)

\* lines 593-608: one iteration of the loop
BuildChainLoop ==
    /\ chain_pc = "loop"
    /\ Len(chain) < MaxChainLen
    /\ chain' = Append(chain, chain_cert)
    /\ LET cert   == certificates[chain_cert]
           issuer == IssuerOf(certificates, cert)
       IN  IF cert.subject = cert.issuer \/ issuer = 0
           THEN /\ chain_pc' = "returned"
                /\ UNCHANGED chain_cert
           ELSE /\ chain_cert' = issuer
                /\ UNCHANGED chain_pc
    /\ UNCHANGED << certificates, signer >>
    /\ UNCHANGED nonChainVars

(***************************************************************************)
(* The magic module (lib/src/modules/magic/mod.rs).  The statics are those *)
(* of one thread; a scan is a call of main followed by calls of the        *)
(* exported functions on the data of that scan.                            *)
(***************************************************************************)
\* Option<String>::None in a cache
None == [some |-> FALSE]
Some(v) == [some |-> TRUE, value |-> v]

\* magic::cookie::Flags: Default::default() and MIME_TYPE
FlagsDefault == "default"
FlagsMimeType == "MIME_TYPE"

\* the files scanned
MagicData == {"MZ", "ELF", "PDF", "text"}

\* magic.buffer(data): what libmagic says of the data under the flags set
MagicBuffer(flags, data) ==
    IF flags = FlagsMimeType
    THEN CASE data = "MZ"  -> "application/x-dosexec"
           [] data = "ELF" -> "application/x-executable"
           [] data = "PDF" -> "application/pdf"
           [] OTHER        -> "text/plain"
    ELSE CASE data = "MZ"  -> "PE32 executable"
           [] data = "ELF" -> "ELF 64-bit LSB executable"
           [] data = "PDF" -> "PDF document"
           [] OTHER        -> "ASCII text"

\* no call of the module yet
NoMagicCall == [fn |-> "none"]

\* lines 14-30: the statics of a thread that has scanned nothing
MagicNew ==
    /\ type_cache = None
    /\ mime_type_cache = None
    /\ magic_flags = FlagsDefault
    /\ magic_data = "text"
    /\ magic_call = NoMagicCall
    /\ magic_invocations = [type |-> 0, mime_type |-> 0]

\* (mutant) the cache keeps what it has
CacheSetNone_Keeps(cache) == cache

\* TYPE_CACHE.set(None), lines 36-37
CacheSetNone(cache) == None

\* main, lines 33-40: called with every scanned file
MagicMain(data) ==
    /\ type_cache' = CacheSetNone(type_cache)
    /\ mime_type_cache' = CacheSetNone(mime_type_cache)
    /\ magic_data' = data
    /\ magic_call' = [fn |-> "main", data |-> data]
    /\ magic_invocations' = [type |-> 0, mime_type |-> 0]
    /\ UNCHANGED magic_flags
    /\ UNCHANGED nonMagicVars

\* TYPE_CACHE.with(|_| None), lines 44 and 59: the closure does not look at
\* the cache it is given
CacheRead(cache) == None

\* file_type, lines 42-55
FileType ==
    /\ magic_call.fn # "none"
    /\ magic_invocations.type + magic_invocations.mime_type < MaxMagicCalls
    /\ LET cached == CacheRead(type_cache)
       IN  IF cached.some
           THEN /\ magic_call' = [fn |-> "type", data |-> magic_data,
                                  value |-> cached.value]
                /\ UNCHANGED << type_cache, magic_flags, magic_invocations >>
           ELSE \* get_type, lines 72-78
                LET type_ == MagicBuffer(FlagsDefault, magic_data)
                IN  /\ magic_flags' = FlagsDefault
                    /\ magic_invocations' =
                          [magic_invocations EXCEPT !.type = @ + 1]
                    /\ type_cache' = Some(type_)
                    /\ magic_call' = [fn |-> "type", data |-> magic_data,
                                      value |-> type_]
    /\ UNCHANGED << mime_type_cache, magic_data >>
    /\ UNCHANGED nonMagicVars

\* mime_type, lines 57-70
MimeType ==
    /\ magic_call.fn # "none"
    /\ magic_invocations.type + magic_invocations.mime_type < MaxMagicCalls
    /\ LET cached == CacheRead(mime_type_cache)
       IN  IF cached.some
           THEN /\ magic_call' = [fn |-> "mime_type", data |-> magic_data,
                                  value |-> cached.value]
                /\ UNCHANGED << mime_type_cache, magic_flags, magic_invocations >>
           ELSE \* get_mime_type, lines 80-86
                LET type_ == MagicBuffer(FlagsMimeType, magic_data)
                IN  /\ magic_flags' = FlagsMimeType
                    /\ magic_invocations' =
                          [magic_invocations EXCEPT !.mime_type = @ + 1]
                    /\ mime_type_cache' = Some(type_)
                    /\ magic_call' = [fn |-> "mime_type", data |-> magic_data,
                                      value |-> type_]
    /\ UNCHANGED << type_cache, magic_data >>
    /\ UNCHANGED nonMagicVars

(***************************************************************************)
(* Emission of the code of the rules (compiler/mod.rs 299-310).  The loops *)
(* of a condition are emitted one inside the other: a loop allocates its   *)
(* variables with new_var, then its body is emitted, then the loop frees   *)
(* its first variable.                                                     *)
(***************************************************************************)
\* emission of the first rule begins
EmitNew ==
    /\ loop_frames = << >>
    /\ emit_log = << 0 >>

Max(a, b) == IF a >= b THEN a ELSE b

\* a var allocated by the emission: Context::new_var, lines 583-592
EmitNewVar ==
    /\ vars_stack_top' = vars_stack_top + 1
    /\ emit_log' = [emit_log EXCEPT ![Len(emit_log)] = Max(@, vars_stack_top + 1)]
    /\ IF StackExhausted(vars_stack_top + 1)
       THEN /\ ctx_pc' = "panicked"
            /\ live' = live
            /\ last' = [op |-> "new_var_panic", index |-> 0,
                        top_before |-> vars_stack_top,
                        prev_op |-> last.op, prev_index |-> last.index]
       ELSE /\ ctx_pc' = ctx_pc
            /\ live' = Append(live, NewVarIndex(vars_stack_top))
            /\ last' = [op |-> "new_var", index |-> NewVarIndex(vars_stack_top),
                        top_before |-> vars_stack_top,
                        prev_op |-> last.op, prev_index |-> last.index]

\* a loop begins: its first variable is allocated
EmitLoopEnter ==
    /\ ctx_pc = "emitting"
    /\ Len(loop_frames) < MaxLoopDepth
    /\ EmitNewVar
    /\ loop_frames' = IF StackExhausted(vars_stack_top + 1)
                      THEN loop_frames
                      ELSE Append(loop_frames, NewVarIndex(vars_stack_top))
    /\ UNCHANGED nonEmitVars

\* the loop being emitted allocates one more variable, before its body
EmitLoopVar ==
    /\ ctx_pc = "emitting"
    /\ loop_frames # << >>
    /\ last.op = "new_var"
    /\ vars_stack_top - loop_frames[Len(loop_frames)] < MaxLoopVars
    /\ EmitNewVar
    /\ UNCHANGED loop_frames
    /\ UNCHANGED nonEmitVars

\* a loop ends: free_vars of its first variable, lines 609-611
EmitLoopExit ==
    /\ ctx_pc = "emitting"
    /\ loop_frames # << >>
    /\ LET first == loop_frames[Len(loop_frames)]
       IN  /\ vars_stack_top' = FreedTop(first)
           /\ live' = SelectSeq(live, LAMBDA v : v < first)
           /\ last' = [op |-> "free_vars", index |-> first,
                       top_before |-> vars_stack_top,
                       prev_op |-> "none", prev_index |-> 0]
    /\ loop_frames' = SubSeq(loop_frames, 1, Len(loop_frames) - 1)
    /\ UNCHANGED << ctx_pc, emit_log >>
    /\ UNCHANGED nonEmitVars

\* emit_rule_code returned: assert_eq!(ctx.vars_stack_top, 0), line 308
EmitRuleEnd ==
    /\ ctx_pc = "emitting"
    /\ loop_frames = << >>
    /\ ctx_pc' = IF vars_stack_top = 0 THEN "emitted" ELSE "assert_failed"
    /\ UNCHANGED << vars_stack_top, live, last, loop_frames, emit_log >>
    /\ UNCHANGED nonEmitVars

\* process_rule of the next rule, lines 256-272: a Context with
\* vars_stack_top: 0
EmitNextRule ==
    /\ ctx_pc = "emitted"
    /\ Len(emit_log) < MaxEmitRules
    /\ vars_stack_top' = 0
    /\ ctx_pc' = "emitting"
    /\ live' = << >>
    /\ last' = NoCall
    /\ emit_log' = Append(emit_log, 0)
    /\ UNCHANGED loop_frames
    /\ UNCHANGED nonEmitVars

(***************************************************************************)
(* AuthenticodeParser::parse (lib/src/modules/pe/authenticode.rs 196-436). *)
(* The input is the ContentInfo as the DER decoder gives it; the           *)
(* authenticated attributes are those an Authenticode signature has.       *)
(***************************************************************************)
ID_SIGNED_DATA == "signedData"
SPC_INDIRECT_DATA_OBJID == "SPC_INDIRECT_DATA"
\* CmsVersion::V1
CmsVersionV1 == 1

\* a SignerInfo: its version and its digest algorithm
SignerInfo(version, digest_alg) == [version |-> version, digest_alg |-> digest_alg]

\* a ContentInfo with its SignedData: `certificates` tells whether the
\* optional certificate set is there, `nested` are the ContentInfos of the
\* nested signature attributes
SignedData(content_type, version, digest_algorithms, signer_infos, econtent_type, certs, nested) ==
    [content_type |-> content_type, version |-> version,
     digest_algorithms |-> digest_algorithms, signer_infos |-> signer_infos,
     econtent_type |-> econtent_type, certificates |-> certs, nested |-> nested]

NoInput == [content_type |-> "none"]
NotParsed == [kind |-> "none"]

ParseNew(input) ==
    /\ auth_input = input
    /\ auth_result = NotParsed

\* Result<Vec<AuthenticodeSignature>, ParseError>, or a panic
ParseOk(signatures) == [kind |-> "Ok", signatures |-> signatures]
ParseErr(e) == [kind |-> "Err", error |-> e]
ParsePanic == [kind |-> "panic"]

\* lines 412-436: the signature made of a SignedData; `signed_data` is the
\* SignedData it was made of (history)
Signature(signed_data) ==
    [signer_infos |-> signed_data.signer_infos,
     signed_data |-> signed_data]

\* (mutant) a SignedData with several signer infos is taken
NumSignerInfoValid_Some(n) == n >= 1

\* line 238: exactly one SignerInfo
NumSignerInfoValid(n) == n = 1

RECURSIVE ParseContentInfo(_)
RECURSIVE NestedSignatures(_, _)

\* lines 302-349: the nested signatures of the attributes `attrs`, after
\* those got so far; a nested ContentInfo that gives an error is skipped
NestedSignatures(attrs, nested_signatures) ==
    IF attrs = << >>
    THEN ParseOk(nested_signatures)
    ELSE LET signatures == ParseContentInfo(Head(attrs))
         IN  IF signatures.kind = "panic"
             THEN ParsePanic
             ELSE NestedSignatures(Tail(attrs),
                     IF signatures.kind = "Ok"
                     THEN nested_signatures \o signatures.signatures
                     ELSE nested_signatures)

\* parse_content_info, lines 216-436
ParseContentInfo(signed_data) ==
    IF signed_data.version # CmsVersionV1
    THEN ParseErr("InvalidSignedDataVersion")
    ELSE IF Len(signed_data.digest_algorithms) # 1
    THEN ParseErr("InvalidNumDigestAlgorithms")
    ELSE IF ~NumSignerInfoValid(Len(signed_data.signer_infos))
    THEN ParseErr("InvalidNumSignerInfo")
    ELSE IF signed_data.econtent_type # SPC_INDIRECT_DATA_OBJID
    THEN ParseErr("InvalidEncapsulatedContentType")
    ELSE LET signer_info == signed_data.signer_infos[1]
         IN  IF signer_info.version # CmsVersionV1
             THEN ParseErr("InvalidSignerInfoVersion")
             ELSE IF signer_info.digest_alg # signed_data.digest_algorithms[1]
             THEN ParseErr("AlgorithmMismatch")
             ELSE IF ~signed_data.certificates
             THEN \* lines 306-309: unwrap of the certificates
                  ParsePanic
             ELSE LET nested == NestedSignatures(signed_data.nested, << >>)
                  IN  IF nested.kind = "panic"
                      THEN ParsePanic
                      ELSE IF signer_info.digest_alg \notin {"sha1", "sha256"}
                      THEN \* line 417: unreachable!()
                           ParsePanic
                      ELSE ParseOk(<< Signature(signed_data) >> \o nested.signatures)

\* parse, lines 196-214
Parse ==
    /\ auth_result = NotParsed
    /\ auth_input # NoInput
    /\ auth_result' = IF auth_input.content_type = ID_SIGNED_DATA
                      THEN ParseContentInfo(auth_input)
                      ELSE ParseErr("InvalidContentType")
    /\ UNCHANGED auth_input
    /\ UNCHANGED nonParseVars

\* the inputs: digest algorithms, signer infos and nested signatures
DigestAlgorithmsSet == {<< >>, << "sha1" >>, << "sha256" >>, << "sha1", "sha256" >>}

SignerInfosSet ==
    {<< >>, << SignerInfo(1, "sha1"), SignerInfo(1, "sha256") >>}
    \cup {<< SignerInfo(v, a) >> : v \in {1, 3}, a \in {"sha1", "sha256"}}

GoodSignedData(alg, nested) ==
    SignedData(ID_SIGNED_DATA, 1, << alg >>, << SignerInfo(1, alg) >>,
               SPC_INDIRECT_DATA_OBJID, TRUE, nested)

NestedSet ==
    { GoodSignedData("sha1", << >>),
      GoodSignedData("sha256", << GoodSignedData("sha1", << >>) >>),
      GoodSignedData("md5", << >>),
      SignedData(ID_SIGNED_DATA, 3, << "sha1" >>, << SignerInfo(1, "sha1") >>,
                 SPC_INDIRECT_DATA_OBJID, TRUE, << >>),
      SignedData(ID_SIGNED_DATA, 1, << "sha1" >>,
                 << SignerInfo(1, "sha1"), SignerInfo(1, "sha1") >>,
                 SPC_INDIRECT_DATA_OBJID, TRUE, << >>),
      SignedData(ID_SIGNED_DATA, 1, << "sha256" >>, << SignerInfo(1, "sha1") >>,
                 SPC_INDIRECT_DATA_OBJID, TRUE, << >>) }

(***************************************************************************)
(* The functions of the modules: Compiler::new (compiler/mod.rs 96-108),   *)
(* process_imports (339-380), WasmExport::fully_qualified_mangled_name     *)
(* (wasm/mod.rs 136-151) and new_linker (481-503).  Names, tags and paths  *)
(* are sequences of characters, so that `contains` and format! are what    *)
(* they are; the name of a function is a string.                           *)
(***************************************************************************)
\* str::contains
Contains(s, sub) ==
    \E i \in 0..(Len(s) - Len(sub)) : SubSeq(s, i + 1, i + Len(sub)) = sub

\* format!("{}.{}", module_name, mangled_name)
Qualified(module_name, mangled_name) == module_name \o << "." >> \o mangled_name

NotBuilt == [built |-> FALSE]
NotLinked == << [module |-> << >>, name |-> << >>, linked |-> FALSE] >>

LinkNew(modules, wasm_exports) ==
    /\ registry = modules
    /\ exports = wasm_exports
    /\ builtin_functions = NotBuilt
    /\ module_functions = << >>
    /\ linker = NotLinked

\* the indexes of a sequence that satisfy Test, in order
SelectIndexes(s, Test(_)) ==
    LET RECURSIVE Sel(_)
        Sel(i) == IF i > Len(s) THEN << >>
                  ELSE (IF Test(s[i]) THEN << i >> ELSE << >>) \o Sel(i + 1)
    IN  Sel(1)

\* FuncSignature::from(mangled_name) and Func::with_signature /
\* Func::add_signature: a Func is the set of its signatures
WithSignature(signature) == {signature}
AddSignature(func, signature) == func \cup {signature}

\* Compiler::new, lines 100-108: a symbol for each public export, under the
\* name of the export; insert replaces the symbol a name had
CompilerNewFunctions ==
    /\ builtin_functions = NotBuilt
    /\ builtin_functions' =
          LET pub == {i \in 1..Len(exports) : exports[i].public}
          IN  [built |-> TRUE,
               symbols |->
                  [n \in {exports[i].name : i \in pub} |->
                     LET last_i == CHOOSE i \in pub :
                                     /\ exports[i].name = n
                                     /\ \A j \in pub : exports[j].name = n => j <= i
                     IN  WithSignature(exports[last_i].mangled_name)]]
    /\ UNCHANGED << registry, exports, module_functions, linker >>
    /\ UNCHANGED nonLinkVars

\* (mutant) the path has to end with the name of the code module
PathOfModule_Suffix(path, mod_name) ==
    Len(mod_name) <= Len(path)
    /\ SubSeq(path, Len(path) - Len(mod_name) + 1, Len(path)) = mod_name

\* line 353: export.rust_module_path.contains(mod_name)
PathOfModule(path, mod_name) == Contains(path, mod_name)

RECURSIVE ExportedFunctions(_, _, _, _)
\* lines 346-373: the map of the functions of the module `module_name`,
\* whose code module is `mod_name`, after the exports from the i-th on
ExportedFunctions(module_name, mod_name, i, functions) ==
    IF i > Len(exports) THEN functions
    ELSE LET export == exports[i]
         IN  IF export.public /\ PathOfModule(export.rust_module_path, mod_name)
             THEN LET signature == Qualified(module_name, export.mangled_name)
                  IN  ExportedFunctions(module_name, mod_name, i + 1,
                         IF export.name \in DOMAIN functions
                         THEN [functions EXCEPT ![export.name] = AddSignature(@, signature)]
                         ELSE [n \in DOMAIN functions \cup {export.name} |->
                                 IF n = export.name THEN WithSignature(signature)
                                 ELSE functions[n]])
             ELSE ExportedFunctions(module_name, mod_name, i + 1, functions)

\* the function with no argument
NoFunctions == [n \in {} |-> {}]

\* process_imports, lines 339-380: the function fields of the struct of the
\* k-th module of the registry, which a rule imports
ProcessImportFunctions(k) ==
    /\ builtin_functions # NotBuilt
    /\ linker = NotLinked
    /\ k \in 1..Len(registry)
    /\ \A j \in 1..Len(module_functions) :
          module_functions[j].module_name # registry[k].name
    /\ module_functions' =
          Append(module_functions,
                 [module_name |-> registry[k].name,
                  functions |->
                     IF registry[k].rust_module_name.some
                     THEN ExportedFunctions(registry[k].name,
                                            registry[k].rust_module_name.value, 1,
                                            NoFunctions)
                     ELSE NoFunctions])
    /\ UNCHANGED << registry, exports, builtin_functions, linker >>
    /\ UNCHANGED nonLinkVars

\* WasmExport::fully_qualified_mangled_name, wasm/mod.rs 141-150
FullyQualifiedMangledName(export) ==
    LET found == SelectIndexes(registry,
                    LAMBDA m : /\ m.rust_module_name.some
                               /\ Contains(export.rust_module_path,
                                           m.rust_module_name.value))
    IN  IF found # << >>
        THEN Qualified(registry[found[1]].name, export.mangled_name)
        ELSE export.mangled_name

\* new_linker, wasm/mod.rs 481-503
NewLinker ==
    /\ builtin_functions # NotBuilt
    /\ linker = NotLinked
    /\ linker' = [i \in 1..Len(exports) |->
                    [module |-> exports[i].rust_module_path,
                     name |-> FullyQualifiedMangledName(exports[i]),
                     linked |-> TRUE]]
    /\ UNCHANGED << registry, exports, builtin_functions, module_functions >>
    /\ UNCHANGED nonLinkVars

\* the inputs: module names, names of code modules, paths and exports
ModuleNames == {<< "p" >>, << "p", "e" >>}
RustModuleNames == {Some(<< "p" >>), Some(<< "p", "e" >>), None}
RustModulePaths == {<< "w" >>, << "m", ":", "p" >>, << "m", ":", "p", "e" >>}

WasmExport(name, mangled_name, public, rust_module_path) ==
    [name |-> name, mangled_name |-> mangled_name, public |-> public,
     rust_module_path |-> rust_module_path]

ExportSet ==
    {WasmExport("r", << "r", "@", "i" >>, FALSE, << "w" >>)}
    \cup {WasmExport(f[1], f[2], TRUE, path) :
            f \in {<< "f", << "f", "@", "i" >> >>, << "f", << "f", "@", "s" >> >>,
                   << "g", << "g", "@", "i" >> >>},
            path \in RustModulePaths}

\* no two items of the sequence are equal
Distinct(s) == \A i, j \in 1..Len(s) : s[i] = s[j] => i = j

Init ==
    /\ CompilerNew
    /\ ContextNew
    /\ ScanContextNew(0)
    /\ ScanDataNew(<< >>)
    /\ ScanStructsNew(0)
    /\ SyntaxErrorNew(<< >>, << >>)
    /\ ToWasmNew(WasmUnit)
    /\ SignatureNew(<< >>, [issuer |-> "A", serial_number |-> 1])
    /\ MagicNew
    /\ EmitNew
    /\ ParseNew(NoInput)
    /\ LinkNew(<< >>, << >>)

\* sources the parser had no warning for, with conditions of type bool
Next ==
    \/ \E shape \in SourceShapes(MaxRules - declared) : AddSource(shape, << >>)
    \/ AddSourceParseError(SyntaxError)
    \/ EnterNamespace
    \/ \E m \in ImportNames : ImportModule(m)
    \/ \E m \in ImportNames : ImportUnknown(m)
    \/ EndImports
    \/ \E r \in {d \in RuleDecls : d.ty = "Bool"} : ProcessRule(r)
    \/ ExitNamespace
    \/ ReturnOk
    \/ DropCompiler
    \/ Build

Spec == Init /\ [][Next]_vars

\* the errors the parser may return for a source
ParserErrors ==
    {ParserError(kind, "x", span[1], span[2]) :
        kind \in DOMAIN ErrorFields, span \in {<< 2, 1 >>, << 3, 1 >>, << 3, 2 >>}}

\* sources without imports and patterns, for which the parser may have
\* warnings or an error, with conditions of every type
NextDiag ==
    \/ \E shape \in SourceShapes(MaxRules - declared), ws \in AstWarnings :
          AddSource(shape, ws)
    \/ \E e \in ParserErrors : AddSourceParseError(e)
    \/ EnterNamespace
    \/ EndImports
    \/ \E r \in {d \in RuleDecls : d.patterns = << >> /\ d.slots = 0} : ProcessRule(r)
    \/ ExitNamespace
    \/ ReturnOk
    \/ DropCompiler
    \/ Build

SpecDiag == Init /\ [][NextDiag]_vars

\* the calls the code generator makes on the Context of one rule
NextVars ==
    \/ NewVar
    \/ \E i \in 1..VarsStackSlots : FreeVars(i)

SpecVars == Init /\ [][NextVars]_vars

\* one run of main over a rule set of 1 .. MaxScanRules rules
InitScan ==
    /\ CompilerNew
    /\ ContextNew
    /\ \E n \in 1..MaxScanRules : ScanContextNew(n)
    /\ ScanDataNew(<< >>)
    /\ ScanStructsNew(0)
    /\ SyntaxErrorNew(<< >>, << >>)
    /\ ToWasmNew(WasmUnit)
    /\ SignatureNew(<< >>, [issuer |-> "A", serial_number |-> 1])
    /\ MagicNew
    /\ EmitNew
    /\ ParseNew(NoInput)
    /\ LinkNew(<< >>, << >>)

NextScan == \E outcome \in CondOutcomes : RunRule(outcome)

SpecScan == InitScan /\ [][NextScan]_vars

\* up to MaxMatches calls of rule_match, in any order
NextMatch == \E rule_id \in 0..(MaxScanRules - 1) : CallRuleMatch(rule_id)

SpecMatch == InitScan /\ [][NextMatch]_vars

\* calls of the uint primitives over scanned data of up to MaxDataLen bytes
InitUint ==
    /\ CompilerNew
    /\ ContextNew
    /\ ScanContextNew(0)
    /\ \E data \in SeqsUpTo(ByteValues, MaxDataLen) : ScanDataNew(data)
    /\ ScanStructsNew(0)
    /\ SyntaxErrorNew(<< >>, << >>)
    /\ ToWasmNew(WasmUnit)
    /\ SignatureNew(<< >>, [issuer |-> "A", serial_number |-> 1])
    /\ MagicNew
    /\ EmitNew
    /\ ParseNew(NoInput)
    /\ LinkNew(<< >>, << >>)

NextUint == \E fn \in DOMAIN UintFns, offset \in Offsets : CallUint(fn, offset)

SpecUint == InitUint /\ [][NextUint]_vars

\* calls of the array and map lookup primitives over module data
InitLookup ==
    /\ CompilerNew
    /\ ContextNew
    /\ ScanContextNew(0)
    /\ ScanDataNew(<< >>)
    /\ \E n \in 0..MaxArrayLen : ScanStructsNew(n)
    /\ SyntaxErrorNew(<< >>, << >>)
    /\ ToWasmNew(WasmUnit)
    /\ SignatureNew(<< >>, [issuer |-> "A", serial_number |-> 1])
    /\ MagicNew
    /\ EmitNew
    /\ ParseNew(NoInput)
    /\ LinkNew(<< >>, << >>)

NextLookup ==
    \/ \E lookup_start \in Slots, lookup_stack \in LookupStacks :
            CallArrayLookup(lookup_start, lookup_stack)
    \/ \E lookup_start \in Slots, lookup_stack \in LookupStacks :
            CallMapLookup(lookup_start, lookup_stack)

SpecLookup == InitLookup /\ [][NextLookup]_vars

\* one call of syntax_error_message for lists of up to MaxExpected and
\* MaxUnexpected grammar rules
InitMsg ==
    /\ CompilerNew
    /\ ContextNew
    /\ ScanContextNew(0)
    /\ ScanDataNew(<< >>)
    /\ ScanStructsNew(0)
    /\ \E e \in SeqsUpTo(GrammarRules, MaxExpected),
          u \in SeqsUpTo(GrammarRules, MaxUnexpected) : SyntaxErrorNew(e, u)
    /\ ToWasmNew(WasmUnit)
    /\ SignatureNew(<< >>, [issuer |-> "A", serial_number |-> 1])
    /\ MagicNew
    /\ EmitNew
    /\ ParseNew(NoInput)
    /\ LinkNew(<< >>, << >>)

NextMsg == SyntaxErrorMessage

SpecMsg == InitMsg /\ [][NextMsg]_vars

\* one conversion of the value a host function returns
InitWasm ==
    /\ CompilerNew
    /\ ContextNew
    /\ ScanContextNew(0)
    /\ ScanDataNew(<< >>)
    /\ ScanStructsNew(0)
    /\ SyntaxErrorNew(<< >>, << >>)
    /\ \E v \in WasmValues : ToWasmNew(v)
    /\ SignatureNew(<< >>, [issuer |-> "A", serial_number |-> 1])
    /\ MagicNew
    /\ EmitNew
    /\ ParseNew(NoInput)
    /\ LinkNew(<< >>, << >>)

NextWasm == ToWasmCall

SpecWasm == InitWasm /\ [][NextWasm]_vars

\* build_chain over the signatures of up to MaxCerts certificates
InitChain ==
    /\ CompilerNew
    /\ ContextNew
    /\ ScanContextNew(0)
    /\ ScanDataNew(<< >>)
    /\ ScanStructsNew(0)
    /\ SyntaxErrorNew(<< >>, << >>)
    /\ ToWasmNew(WasmUnit)
    /\ \E certs \in SeqsUpTo(Certificates, MaxCerts),
          issuer \in CertNames, serial \in SerialNumbers :
            SignatureNew(certs, [issuer |-> issuer, serial_number |-> serial])
    /\ MagicNew
    /\ EmitNew
    /\ ParseNew(NoInput)
    /\ LinkNew(<< >>, << >>)

NextChain ==
    \/ BuildChainFind
    \/ BuildChainLoop

SpecChain == InitChain /\ [][NextChain]_vars

\* scans of one thread with the magic module
InitMagic ==
    /\ CompilerNew
    /\ ContextNew
    /\ ScanContextNew(0)
    /\ ScanDataNew(<< >>)
    /\ ScanStructsNew(0)
    /\ SyntaxErrorNew(<< >>, << >>)
    /\ ToWasmNew(WasmUnit)
    /\ SignatureNew(<< >>, [issuer |-> "A", serial_number |-> 1])
    /\ MagicNew
    /\ EmitNew
    /\ ParseNew(NoInput)
    /\ LinkNew(<< >>, << >>)

NextMagic ==
    \/ \E data \in MagicData : MagicMain(data)
    \/ FileType
    \/ MimeType

SpecMagic == InitMagic /\ [][NextMagic]_vars

\* emission of the rules of one source
InitEmit ==
    /\ CompilerNew
    /\ ContextNew
    /\ ScanContextNew(0)
    /\ ScanDataNew(<< >>)
    /\ ScanStructsNew(0)
    /\ SyntaxErrorNew(<< >>, << >>)
    /\ ToWasmNew(WasmUnit)
    /\ SignatureNew(<< >>, [issuer |-> "A", serial_number |-> 1])
    /\ MagicNew
    /\ EmitNew
    /\ ParseNew(NoInput)
    /\ LinkNew(<< >>, << >>)

NextEmit ==
    \/ EmitLoopEnter
    \/ EmitLoopVar
    \/ EmitLoopExit
    \/ EmitRuleEnd
    \/ EmitNextRule

SpecEmit == InitEmit /\ [][NextEmit]_vars

\* parse of one input
InitParse ==
    /\ CompilerNew
    /\ ContextNew
    /\ ScanContextNew(0)
    /\ ScanDataNew(<< >>)
    /\ ScanStructsNew(0)
    /\ SyntaxErrorNew(<< >>, << >>)
    /\ ToWasmNew(WasmUnit)
    /\ SignatureNew(<< >>, [issuer |-> "A", serial_number |-> 1])
    /\ MagicNew
    /\ EmitNew
    /\ \E content_type \in {ID_SIGNED_DATA, "data"}, version \in {1, 3},
          digest_algorithms \in DigestAlgorithmsSet, signer_infos \in SignerInfosSet,
          econtent_type \in {SPC_INDIRECT_DATA_OBJID, "data"}, certs \in BOOLEAN,
          nested \in SeqsUpTo(NestedSet, MaxNested) :
            ParseNew(SignedData(content_type, version, digest_algorithms,
                                signer_infos, econtent_type, certs, nested))
    /\ LinkNew(<< >>, << >>)

NextParse == Parse

SpecParse == InitParse /\ [][NextParse]_vars

\* one registry of modules and one set of exports: the compiler is made,
\* modules are imported, the linker is made
InitLink ==
    /\ CompilerNew
    /\ ContextNew
    /\ ScanContextNew(0)
    /\ ScanDataNew(<< >>)
    /\ ScanStructsNew(0)
    /\ SyntaxErrorNew(<< >>, << >>)
    /\ ToWasmNew(WasmUnit)
    /\ SignatureNew(<< >>, [issuer |-> "A", serial_number |-> 1])
    /\ MagicNew
    /\ EmitNew
    /\ ParseNew(NoInput)
    /\ \E modules \in SeqsUpTo([name : ModuleNames, rust_module_name : RustModuleNames],
                               Cardinality(ModuleNames)),
          wasm_exports \in SeqsUpTo(ExportSet, MaxExports) :
            /\ Distinct([k \in 1..Len(modules) |-> modules[k].name])
            /\ Distinct([k \in 1..Len(wasm_exports) |->
                           << wasm_exports[k].rust_module_path,
                              wasm_exports[k].mangled_name >>])
            /\ LinkNew(modules, wasm_exports)

NextLink ==
    \/ CompilerNewFunctions
    \/ \E k \in 1..Cardinality(ModuleNames) : ProcessImportFunctions(k)
    \/ NewLinker

SpecLink == InitLink /\ [][NextLink]_vars

(***************************************************************************)
(* Properties of the compiler.                                             *)
(***************************************************************************)

\* C1: add_source followed by build is all or nothing.  A compiler that
\* add_source returned, and the artifact built from it, hold exactly as many
\* rules as the sources given to it declare; once an add_source has failed
\* (an error in the parser, in an import or in a rule, or a panic) the
\* compiler is never handed back and no artifact is ever built from it.
C1_AllOrNothing ==
    /\ (pc = "ready" /\ result \in {"none", "ok"}) => Len(rules) = declared
    /\ artifact # NoArtifact =>
          /\ Len(artifact.rules) = declared
          /\ result \in {"none", "ok"}
    /\ result \in {"err", "panic"} =>
          /\ artifact = NoArtifact
          /\ pc \in {"err_return", "panicked", "dropped"}

\* an artifact built after two add_source calls that declared rules in two
\* namespaces
C1_Witness ==
    /\ artifact # NoArtifact
    /\ n_sources = 2
    /\ Len(artifact.rules) = 2
    /\ Cardinality(earlier_defined) = 1

\* the PatternIds of all the rules, in the order of the rules vector
RECURSIVE FlatPatternIds(_)
FlatPatternIds(rs) ==
    IF rs = << >> THEN << >>
    ELSE [i \in 1..Len(Head(rs).patterns) |-> Head(rs).patterns[i][2]]
         \o FlatPatternIds(Tail(rs))

\* C2: RuleIds and PatternIds are assigned in processing order and are
\* contiguous from zero: the k-th rule handed to the code generator has
\* RuleId k-1, which is its index in the rules vector (the rule stored there
\* carries its identifier), and the k-th pattern in processing order has
\* PatternId k-1.
C2_ContiguousIds ==
    pc # "dropped" =>
       /\ \A k \in 1..Len(emitted) : emitted[k] = k - 1
       /\ Len(emitted) <= Len(rules)
       /\ (pc \in {"ready", "built", "ns_loop"} => Len(emitted) = Len(rules))
       /\ FlatPatternIds(rules) = [i \in 1..Len(patterns) |-> i - 1]
       /\ pc \in {"imports", "rules"} =>
             \A n \in DOMAIN symbol_table[Len(symbol_table)] :
                LET sym == symbol_table[Len(symbol_table)][n]
                IN  sym.kind = "Rule" =>
                       /\ sym.val + 1 \in 1..Len(rules)
                       /\ ident_pool[rules[sym.val + 1].ident + 1] = n

\* two rules of two namespaces, each with two patterns, have been processed
C2_Witness ==
    /\ pc = "ready"
    /\ emitted = << 0, 1 >>
    /\ Len(patterns) = 4
    /\ Cardinality(earlier_defined) = 1

\* every PatternId of `rs` indexes `pats`, and no two (rule, pattern) pairs
\* share one
PatternIdsValid(rs, pats) ==
    /\ \A i \in 1..Len(rs) : \A j \in 1..Len(rs[i].patterns) :
          /\ 0 <= rs[i].patterns[j][2]
          /\ rs[i].patterns[j][2] < Len(pats)
    /\ \A i1, i2 \in 1..Len(rs) :
          \A j1 \in 1..Len(rs[i1].patterns) : \A j2 \in 1..Len(rs[i2].patterns) :
             rs[i1].patterns[j1][2] = rs[i2].patterns[j2][2] => (i1 = i2 /\ j1 = j2)

C9_PoppedOnEveryExit ==
    pc \in {"ns_loop", "ready", "err_return"} => Len(symbol_table) = 1

\* C9 (amended): the frame is popped on normal completion only.  On an
\* error add_source returns without popping; the frame goes with the
\* compiler, which add_source owns and drops, so the caller never holds a
\* compiler with a namespace frame left on its stack.
C9_FrameReleased ==
    /\ pc \in {"ns_loop", "ready"} => Len(symbol_table) = 1
    /\ pc \in {"imports", "rules"} => Len(symbol_table) = 2
    /\ pc = "dropped" => symbol_table = << >>
    /\ pc = "ready" => result \in {"none", "ok"}

\* an add_source that failed inside its first namespace, after the frame
\* was pushed and an import statement was processed, and was dropped
C9_Witness ==
    /\ pc = "dropped"
    /\ result = "err"
    /\ n_imports = 1
    /\ earlier_defined = {}

SourceNames == RuleIdents \cup ImportNames

\* C10: namespaces are isolated.  While a namespace is processed the names
\* that resolve are the built-in functions and what this namespace has
\* defined so far: nothing defined by an earlier namespace, of this or of
\* an earlier add_source, resolves.  Between namespaces, and in a compiler
\* add_source returned, the stack holds the built-in functions frame alone.
C10_NamespaceIsolation ==
    /\ pc \in {"imports", "rules"} =>
          /\ \A n \in earlier_defined \ ns_defined : ~Resolvable(symbol_table, n)
          /\ \A n \in SourceNames : Resolvable(symbol_table, n) <=> n \in ns_defined
          /\ \A n \in ns_defined :
                StackLookup(symbol_table, n) = symbol_table[Len(symbol_table)][n]
    /\ pc \in {"ns_loop", "ready"} => symbol_table = << BuiltinFrame >>

\* a later namespace is being processed, after it imported a module, and a
\* rule and a module of an earlier namespace are not its own
C10_Witness ==
    /\ pc = "rules"
    /\ "r1" \in earlier_defined \ ns_defined
    /\ "magic" \in earlier_defined \ ns_defined
    /\ "data" \in ns_defined
    /\ ~Resolvable(symbol_table, "r1")
    /\ Resolvable(symbol_table, "data")

(***************************************************************************)
(* Properties of the loop-variable stack.                                  *)
(***************************************************************************)

\* C7 (as claimed): from an empty stack 128 successive new_var calls
\* succeed, and the 129th is rejected with an error result handed to the
\* caller of the compiler, not by aborting.
C7_BudgetIsAnErrorResult ==
    /\ last.op = "new_var_panic" => last.top_before >= VarsStackSlots
    /\ vars_stack_top > VarsStackSlots => ctx_pc = "error"

\* C8: the slots obey a stack discipline.  new_var returns the top as it
\* was and bumps it by one; free_vars(handle) resets the top to the
\* handle's index, which releases that slot and every slot allocated after
\* it and keeps the slots allocated before it; the next new_var then
\* returns the index of the freed handle again.  The Vars held are
\* therefore always the slots 0 .. top-1, each held once.
C8_StackDiscipline ==
    /\ ctx_pc = "emitting" => live = [i \in 1..vars_stack_top |-> i - 1]
    /\ last.op = "new_var" =>
          /\ last.index = last.top_before
          /\ vars_stack_top = last.top_before + 1
          /\ last.prev_op = "free_vars" => last.index = last.prev_index
    /\ last.op = "free_vars" =>
          /\ vars_stack_top = last.index
          /\ last.index < last.top_before
          /\ \A k \in 0..(last.index - 1) : k \in Range(live)
          /\ \A k \in last.index..(last.top_before - 1) : k \notin Range(live)

\* three slots were held, the second handle was freed, and the next new_var
\* returned its index again while slot 0 stayed held
C8_Witness ==
    /\ last.op = "new_var"
    /\ last.prev_op = "free_vars"
    /\ last.index = 1
    /\ live = << 0, 1 >>

(***************************************************************************)
(* Properties of the run of main.                                          *)
(***************************************************************************)
\* bit i of the matching-rules bitmap, as the layout of main memory gives it
MatchingBit(i) ==
    (main_memory[MATCHING_RULES_BITMAP_BASE + (i \div 8)] \div (2 ^ (i % 8))) % 2

\* C4: for every rule index i of the rule set, once main has run rule i, bit i
\* of the matching-rules bitmap is set if and only if the condition of rule i
\* was defined and true, and rule_match(i) was called exactly in that case
\* (once); the bits of rules not run yet, and the bits past the rule set,
\* are clear.
C4_BitmapIffTrue ==
    /\ \A i \in 0..(Len(cond) - 1) :
          /\ (MatchingBit(i) = 1) <=> (cond[i + 1] = "true")
          /\ Cardinality({k \in 1..Len(rules_matching) : rules_matching[k] = i})
                = (IF cond[i + 1] = "true" THEN 1 ELSE 0)
    /\ \A i \in Len(cond)..(8 * BitmapBytes - 1) : MatchingBit(i) = 0
    /\ \A k \in 1..Len(rules_matching) : rules_matching[k] \in 0..(Len(cond) - 1)

\* main has run over nine rules; rule 8, whose bit is in the second byte of the
\* bitmap, matched, rule 0 was undefined and rule 1 false
C4_Witness ==
    /\ num_rules = 9
    /\ Len(cond) = num_rules
    /\ cond[9] = "true"
    /\ cond[1] = "undef"
    /\ cond[2] = "false"
    /\ cond[3] = "true"
    /\ MatchingBit(8) = 1
    /\ MatchingBit(2) = 1

\* bit i of the bitmap at offset 2048 of the memory `mem`, bit 0 being the
\* least significant bit of the first byte
BitmapBit(mem, i) == (mem[2048 + (i \div 8)] \div (2 ^ (i % 8))) % 2

\* C22: rule_match(rule_id) sets bit rule_id of the bitmap at offset 2048,
\* leaves the other bits of the bitmap and the bytes of the regions of the
\* loop variables and of the lookup indexes as they were, and appends
\* rule_id to the matched list; after any calls, bit i is set if and only
\* if i is in the matched list.
C22_RuleMatchFrame ==
    /\ [](\A i \in 0..(8 * BitmapBytes - 1) :
             BitmapBit(main_memory, i) = 1 <=> i \in Range(rules_matching))
    /\ [][Len(rules_matching') = Len(rules_matching) + 1 =>
             LET rule_id == rules_matching'[Len(rules_matching')]
             IN  /\ SubSeq(rules_matching', 1, Len(rules_matching)) = rules_matching
                 /\ BitmapBit(main_memory', rule_id) = 1
                 /\ \A i \in 0..(8 * BitmapBytes - 1) :
                       i # rule_id =>
                          BitmapBit(main_memory', i) = BitmapBit(main_memory, i)
                 /\ \A a \in 0..2047 :
                       a \in DOMAIN main_memory => main_memory'[a] = main_memory[a]]_vars

\* rule_match was called for rule 8, for rule 0 and for rule 8 again: the
\* first bit of the first two bytes of the bitmap is set
C22_Witness ==
    /\ rules_matching = << 8, 0, 8 >>
    /\ main_memory[2048] = 1
    /\ main_memory[2049] = 1
    /\ main_memory[2047] = 0

(***************************************************************************)
(* Properties of the uint primitives.                                      *)
(***************************************************************************)
UintWidths == [name \in DOMAIN UintFns |->
                 IF name \in {"uint8", "uint8be"} THEN 1
                 ELSE IF name \in {"uint16", "uint16be"} THEN 2
                 ELSE IF name \in {"uint32", "uint32be"} THEN 4 ELSE 8]

BigEndianFns == {"uint8be", "uint16be", "uint32be", "uint64be"}

\* the number an i64 stands for, for those whose upper six bytes are zero
SmallI64(bytes) == bytes[1] + 256 * bytes[2]

\* C5: a uint primitive of width w called with an offset returns Undef when
\* the offset is negative or offset + w exceeds the length of the scanned
\* data; otherwise it returns Ok with the unsigned integer made of the bytes
\* [offset, offset + w), the first byte being the least significant one for
\* the little-endian primitives and the most significant one for the
\* big-endian ones, zero-extended to 64 bits; it never panics.
C5_UintReads ==
    uint_call.fn # "none" =>
        LET w   == UintWidths[uint_call.fn]
            off == uint_call.offset
            ret == uint_call.ret
        IN  /\ ret.kind # "panic"
            /\ (off < 0 \/ off + w > Len(scanned_data)) <=> (ret.kind = "Undef")
            /\ ret.kind = "Ok" =>
                  /\ Len(ret.value) = 8
                  /\ \A k \in 0..7 :
                        ret.value[k + 1] =
                            IF k >= w THEN 0
                            ELSE IF uint_call.fn \in BigEndianFns
                                 THEN scanned_data[off + w - k]
                                 ELSE scanned_data[off + 1 + k]
                  /\ w = 2 =>
                        SmallI64(ret.value) =
                            IF uint_call.fn \in BigEndianFns
                            THEN 256 * scanned_data[off + 1] + scanned_data[off + 2]
                            ELSE scanned_data[off + 1] + 256 * scanned_data[off + 2]

\* uint32be read the last four bytes of nine, which differ, and returned them
\* in reverse order
C5_Witness ==
    /\ uint_call.fn = "uint32be"
    /\ Len(scanned_data) = 9
    /\ uint_call.offset = 5
    /\ scanned_data[6] = 1
    /\ scanned_data[9] = 200
    /\ uint_call.ret.kind = "Ok"
    /\ uint_call.ret.value[1] = 200
    /\ uint_call.ret.value[4] = 1

(***************************************************************************)
(* Properties of the array and map lookup primitives.                      *)
(***************************************************************************)
\* C6: an array lookup primitive called with an index outside [0, len),
\* negative indexes included, returns Undef, and a map lookup primitive
\* called with a key the map does not hold returns Undef; no lookup panics,
\* and a lookup that returns Undef leaves the host variable stack as it was.
C6_UndefOnMiss ==
    /\ lookup_call.ret.kind # "panic"
    /\ (/\ lookup_call.fn \in DOMAIN ArrayLookupFns
        /\ (lookup_call.arg < 0 \/ lookup_call.arg >= lookup_call.len)) =>
          /\ lookup_call.ret.kind = "Undef"
          /\ vars_stack = lookup_call.vars_before
    /\ lookup_call.fn \in DOMAIN MapLookupFns =>
          /\ lookup_call.arg \notin lookup_call.keys => lookup_call.ret.kind = "Undef"
          /\ vars_stack = lookup_call.vars_before

\* array_lookup_struct was called with index -1 and a slot to store to, on the
\* array of a struct that an earlier lookup had put in slot 1, and returned
\* Undef
C6_Witness ==
    /\ lookup_call.fn = "array_lookup_struct"
    /\ lookup_call.arg = 0 - 1
    /\ lookup_call.len = 2
    /\ lookup_call.var = 0
    /\ lookup_call.ret.kind = "Undef"
    /\ Len(vars_stack) = 2
    /\ vars_stack[2].ty = "Struct"

\* the primitives that set the current struct
StructLookupFns == {"array_lookup_struct", "map_lookup_integer_struct",
                    "map_lookup_string_struct"}

\* where the lookup of the call `call` starts, its lookup stack not being
\* empty
LookupStartOf(call) ==
    IF call.struct_before # NoStruct THEN call.struct_before
    ELSE IF call.lookup_start # 0 - 1 THEN call.vars_before[call.lookup_start + 1]
    ELSE root_struct

\* C23: a lookup with a lookup stack that is not empty starts at the current
\* struct if there is one, else at the struct in the slot lookup_start if
\* this is not -1, else at the root struct, and finds what the indexes of
\* the stack lead to from there.  The current struct is None after every
\* lookup, but after a struct lookup that found its item, which becomes the
\* current struct: the struct a lookup leaves is there for the next lookup
\* alone.
C23_OneShotCurrentStruct ==
    LET call == lookup_call
    IN  (call.fn # "none" /\ call.ret.kind # "panic") =>
           /\ current_struct # NoStruct <=>
                 (call.fn \in StructLookupFns /\ call.ret.kind = "Ok")
           /\ call.lookup_stack # << >> =>
                 LET found == WalkFields(LookupStartOf(call), call.lookup_stack,
                                         Unknown).type_value
                 IN  IF call.fn \in DOMAIN ArrayLookupFns
                     THEN /\ found.ty = "Array"
                          /\ Len(found.items) = call.len
                          /\ call.ret.kind = "Ok" =>
                                IF call.fn \in StructLookupFns
                                THEN current_struct = found.items[call.arg + 1]
                                ELSE call.ret.value = found.items[call.arg + 1].v
                     ELSE /\ found.ty = "Map"
                          /\ DOMAIN found.entries = call.keys
                          /\ call.ret.kind = "Ok" =>
                                IF call.fn \in StructLookupFns
                                THEN current_struct = found.entries[call.arg]
                                ELSE call.ret.value = found.entries[call.arg].v

\* array_lookup_integer found, with no lookup_start, item 1 of the array of
\* the struct that a struct lookup had left as current struct, and left none
C23_Witness ==
    /\ lookup_call.fn = "array_lookup_integer"
    /\ lookup_call.struct_before = InnerStruct(2)
    /\ lookup_call.lookup_start = 0 - 1
    /\ lookup_call.lookup_stack = << 1 >>
    /\ lookup_call.ret = LookupOk(22)
    /\ current_struct = NoStruct

(***************************************************************************)
(* Properties of imports, warnings and errors.                             *)
(***************************************************************************)
\* the names imports() yields: the imported modules, resolved in the pool
ImportedNames(pool, imported) == [i \in 1..Len(imported) |-> pool[imported[i] + 1]]

\* C11: an import of a module that is not a key of the registry makes
\* add_source return an UnknownModule error about that module; the name of a
\* module that is not registered is never inserted in a namespace's frame, in
\* the struct of the imported modules or in the list of imported modules.
C11_UnknownModuleRejected ==
    /\ \A i \in 1..Len(imported_modules) :
          ImportedNames(ident_pool, imported_modules)[i] \in DOMAIN BUILTIN_MODULES
    /\ Range(modules_struct) \subseteq DOMAIN BUILTIN_MODULES
    /\ \A f \in 1..Len(symbol_table) : \A n \in DOMAIN symbol_table[f] :
          symbol_table[f][n].kind = "FieldIndex" => n \in DOMAIN BUILTIN_MODULES
    /\ error.kind = "UnknownModule" =>
          /\ error.subject \notin DOMAIN BUILTIN_MODULES
          /\ result = "err"
          /\ pc \in {"err_return", "dropped"}
          /\ pc = "err_return" =>
                /\ error.subject \notin DOMAIN symbol_table[Len(symbol_table)]
                /\ error.subject \notin Range(modules_struct)
                /\ error.subject \notin
                      Range(ImportedNames(ident_pool, imported_modules))

\* add_source is returning UnknownModule for the second import of a
\* namespace, the first one having been a registered module
C11_Witness ==
    /\ pc = "err_return"
    /\ error = CompileError("UnknownModule", "zz")
    /\ n_imports = 2
    /\ Len(imported_modules) = 1
    /\ "magic" \in DOMAIN symbol_table[Len(symbol_table)]

\* C12 (as claimed): an import of a module the namespace has imported
\* already adds a DuplicateImport warning and is otherwise ignored: the list
\* of imported modules, the struct of the imported modules and the symbol
\* table stay as the first import left them.
C12_DuplicateImportIgnored ==
    [][(/\ pc = "imports"
        /\ pc' = "imports"
        /\ n_imports' = n_imports + 1
        /\ DOMAIN symbol_table'[Len(symbol_table')] =
              DOMAIN symbol_table[Len(symbol_table)])
       => (/\ imported_modules' = imported_modules
           /\ modules_struct' = modules_struct
           /\ symbol_table' = symbol_table
           /\ Len(warnings') = Len(warnings) + 1
           /\ warnings'[Len(warnings')].kind = "DuplicateImport")]_vars

\* what the caller of build holds of the compiler's warnings: Rules (lines
\* 655-686) has no field for them and build consumes the compiler
ReturnedWarnings(rules_artifact) ==
    IF "warnings" \in DOMAIN rules_artifact THEN rules_artifact.warnings ELSE << >>

\* C13 (as claimed): the warnings accumulated by the add_source calls are
\* returned alongside the artifact produced by build.
C13_WarningsReturned ==
    artifact # NoArtifact => ReturnedWarnings(artifact) = warnings

\* the types a condition is cast to bool from
CastTypes == {"Integer", "Float", "String"}

\* the rule `id` went through warn_if_not_bool with a condition that is
\* not a bool: its check (lines 288-293) returned no error
Warned(id) ==
    /\ cond_type[id + 1] \in CastTypes
    /\ ~ (id = Len(rules) - 1 /\ error.kind = "SemcheckError")

WarnedRules == SelectSeq([i \in 1..Len(rules) |-> i - 1], Warned)

IsNonBooleanCondition(w) == w.kind = "NonBooleanCondition"

NonBooleanWarnings == SelectSeq(warnings, IsNonBooleanCondition)

\* C14: a condition of type integer, float or string is never refused for
\* its type; the rule is compiled with a cast to bool at the root of its
\* condition and exactly one NonBooleanCondition warning, the warnings of
\* that kind being, in order, one per such rule.  A condition of type bool
\* is compiled with no cast and no warning.  A condition of another type
\* makes add_source return an error and the rule is not compiled.
C14_NonBooleanCondition ==
    /\ \A id \in 0..(Len(rules) - 1) :
          LET ty == cond_type[id + 1]
          IN  /\ id \in Range(emitted) => (id \in casts <=> ty \in CastTypes)
              /\ ty \notin CastTypes \cup {"Bool"} =>
                    /\ id \notin Range(emitted)
                    /\ id = Len(rules) - 1
                    /\ result = "err"
                    /\ error.kind \in {"WrongType", "SemcheckError"}
    /\ error.kind = "WrongType" =>
          cond_type[Len(cond_type)] \notin CastTypes \cup {"Bool"}
    /\ Len(NonBooleanWarnings) = Len(WarnedRules)
    /\ \A k \in 1..Len(WarnedRules) :
          NonBooleanWarnings[k].subject = ident_pool[rules[WarnedRules[k] + 1].ident + 1]

\* build returned an artifact with two rules, the first with a condition of
\* type integer, cast and warned about, the second with one of type bool
C14_Witness ==
    /\ artifact # NoArtifact
    /\ Len(artifact.rules) = 2
    /\ cond_type = << "Integer", "Bool" >>
    /\ casts = {0}
    /\ emitted = << 0, 1 >>
    /\ Len(NonBooleanWarnings) = 1

\* C15 (as claimed): a pattern the condition does not use is a warning, never
\* an error that aborts compilation: add_source does not return an
\* UnusedString error.
C15_UnusedStringNeverAnError ==
    ~ (result = "err" /\ error.kind = "UnusedString")

\* the variants for a second occurrence of something declared already
DuplicateKinds == {"DuplicateRule", "DuplicateTag", "DuplicateString", "DuplicateModifier"}

\* C16 (as claimed): the labels of the error for a duplicate rule name, tag,
\* pattern identifier or modifier point at both offending spans, that of
\* the new occurrence and that of the original one.
C16_DuplicateLabelsBothSpans ==
    error.kind \in DuplicateKinds => Cardinality(LabelSpans(error)) = 2

(***************************************************************************)
(* Properties of rule identifiers and of the identifier pool.              *)
(***************************************************************************)
\* the RuleIds of the rules that have a symbol in the frame `frame`
FrameRules(frame) == {frame[n].val : n \in {x \in DOMAIN frame : frame[x].kind = "Rule"}}

\* C17: rule identifiers are unique within a namespace.  A rule process_rule
\* adds has an identifier that none of the rules of its namespace has, and
\* the insertion of its symbol in the namespace's frame leaves every symbol
\* that was in the frame as it was.
C17_RuleIdentsUnique ==
    [][Len(rules') = Len(rules) + 1 =>
          LET frame      == symbol_table[Len(symbol_table)]
              next_frame == symbol_table'[Len(symbol_table')]
              new_rule   == rules'[Len(rules')]
          IN  /\ Len(symbol_table') = Len(symbol_table)
              /\ \A n \in DOMAIN frame : next_frame[n] = frame[n]
              /\ \A id \in FrameRules(frame) : rules[id + 1].ident # new_rule.ident
              /\ Cardinality(FrameRules(next_frame)) = Cardinality(FrameRules(frame)) + 1]_vars

\* two rules of one namespace are compiled: both have their symbol in the
\* namespace's frame, under different identifiers
C17_Witness ==
    /\ pc = "rules"
    /\ Len(symbol_table) = 2
    /\ Cardinality(FrameRules(symbol_table[2])) = 2
    /\ \E a, b \in FrameRules(symbol_table[2]) : rules[a + 1].ident # rules[b + 1].ident

\* StringPool::get: the string of the id `id`, had the pool one
Resolves(pool, id) == id + 1 \in 1..Len(pool)

\* the strings the pattern identifiers of the rule `rule` resolve to
PatternNames(pool, rule) ==
    [k \in 1..Len(rule.patterns) |-> pool[rule.patterns[k][1] + 1]]

\* every IdentId stored in `rs` and `imported` resolves in `pool`, to the
\* name of a rule, to the identifiers of a `strings:` section in their
\* order, and to the name of a module
IdentIdsResolve(pool, rs, imported) ==
    /\ \A i \in 1..Len(rs) :
          /\ Resolves(pool, rs[i].ident)
          /\ pool[rs[i].ident + 1] \in RuleIdents
          /\ \A k \in 1..Len(rs[i].patterns) : Resolves(pool, rs[i].patterns[k][1])
          /\ PatternNames(pool, rs[i]) \in PatternLists
    /\ \A i \in 1..Len(imported) :
          /\ Resolves(pool, imported[i])
          /\ pool[imported[i] + 1] \in ImportNames

\* C18: the identifier pool holds each string once, so one string has one
\* IdentId and two strings have two; the pool only grows during a
\* compilation, so the string of an IdentId never changes; and every IdentId
\* stored in a rule, in a rule's patterns or in the imported modules
\* resolves to the identifier it was interned for, in the compiler's pool
\* and in the pool of the artifact.
C18_IdentPoolInterning ==
    /\ [](/\ \A i, j \in 1..Len(ident_pool) :
                ident_pool[i] = ident_pool[j] => i = j
          /\ IdentIdsResolve(ident_pool, rules, imported_modules)
          /\ artifact # NoArtifact =>
                IdentIdsResolve(artifact.ident_pool, artifact.rules,
                                artifact.imported_modules))
    /\ [][pc' # "dropped" =>
             /\ Len(ident_pool) <= Len(ident_pool')
             /\ \A i \in 1..Len(ident_pool) : ident_pool'[i] = ident_pool[i]]_vars

\* an artifact whose two rules, of two namespaces, have the same name and
\* the same patterns: one IdentId for both names, one per pattern identifier
C18_Witness ==
    /\ artifact # NoArtifact
    /\ Len(artifact.rules) = 2
    /\ artifact.rules[1].ident = artifact.rules[2].ident
    /\ Len(artifact.rules[1].patterns) = 2
    /\ Len(artifact.rules[2].patterns) = 2
    /\ artifact.rules[1].patterns[1][1] = artifact.rules[2].patterns[1][1]
    /\ artifact.rules[1].patterns[1][1] # artifact.rules[1].patterns[2][1]
    /\ Len(artifact.ident_pool) = 3

(***************************************************************************)
(* Properties of the syntax error message and of the host functions'       *)
(* results.                                                                *)
(***************************************************************************)
\* the strings a message has between the text of its format
NamesIn(msg) == {msg[k].name : k \in {i \in 1..Len(msg) : "name" \in DOMAIN msg[i]}}

\* the printable names of the rules of a list, COMMENT and WHITESPACE aside
PrintableNames(rules_list) ==
    {PrintableString(r) : r \in Range(rules_list) \ {"COMMENT", "WHITESPACE"}}

\* "a", "a or b", "a, b, or c": the names of `names` in alphabetical order,
\* each once
Enumerated(names) ==
    LET n      == Cardinality(names)
        sorted == CHOOSE q \in [1..n -> names] :
                     \A i, j \in 1..n : i < j => StrLess(q[i], q[j])
    IN  [k \in 1..(2 * n - 1) |->
            IF k % 2 = 1 THEN Name(sorted[(k + 1) \div 2])
            ELSE IF n = 2 THEN Lit(" or ")
            ELSE IF k = 2 * n - 2 THEN Lit(", or ")
            ELSE Lit(", ")]

\* C19: the message of a syntax error mentions neither COMMENT nor
\* WHITESPACE.  With U and E the printable names of the unexpected and of
\* the expected rules, the two aside, it is "unexpected U; expected E",
\* "unexpected U", "expected E" or "unknown parsing error" according to
\* which of U and E are not empty, each enumerated in alphabetical order
\* without repetition as "a", "a or b" or "a, b, or c".
C19_SyntaxErrorMessage ==
    message # NoMessage =>
       LET U == PrintableNames(unexpected)
           E == PrintableNames(expected)
       IN  /\ Str.COMMENT \notin NamesIn(message)
           /\ Str.WHITESPACE \notin NamesIn(message)
           /\ message =
                 CASE U # {} /\ E # {} ->
                         << Lit("unexpected ") >> \o Enumerated(U)
                         \o << Lit("; expected ") >> \o Enumerated(E)
                   [] U # {} /\ E = {} -> << Lit("unexpected ") >> \o Enumerated(U)
                   [] U = {} /\ E # {} -> << Lit("expected ") >> \o Enumerated(E)
                   [] OTHER -> << Lit("unknown parsing error") >>

\* "unexpected number; expected byte, bytes, or number" for a list of
\* unexpected rules that has a COMMENT
C19_Witness ==
    /\ unexpected = << "COMMENT", "float_lit" >>
    /\ expected = << "hex_pattern", "integer_lit", "hex_byte" >>
    /\ message = << Lit("unexpected "), Name(Str.number), Lit("; expected "),
                    Name(Str.byte), Lit(", "), Name(Str.bytes), Lit(", or "),
                    Name(Str.number) >>

\* C20: the encoding of a MaybeUndef<T> is a value followed by a flag.  For
\* Ok(v) it is the encoding of v followed by i32 0, for Undef the encoding of
\* T's default value, all zero bits, followed by i32 1; the flag is the last
\* element and is 0 or 1; for T = () the flag is the only element.
C20_MaybeUndefEncoding ==
    (wasm_raw # NotConverted /\ wasm_value.ty = "MaybeUndef") =>
       LET n     == Len(wasm_raw)
           flag  == wasm_raw[n]
           undef == "undef" \in DOMAIN wasm_value
           inner == IF undef THEN Default(wasm_value.of) ELSE wasm_value.ok
       IN  /\ n = (IF wasm_value.of = "unit" THEN 1 ELSE 2)
           /\ flag.raw = "i32"
           /\ flag.bits \in {0, 1}
           /\ flag.bits = 1 <=> undef
           /\ SubSeq(wasm_raw, 1, n - 1) = PlainToWasm(inner)
           /\ undef => \A k \in 1..(n - 1) : wasm_raw[k].bits = 0

\* MaybeUndef::<i64>::Undef was converted: (i64 0, i32 1)
C20_Witness ==
    /\ wasm_value = MaybeUndefUndef("i64")
    /\ wasm_raw = << ValRaw("i64", 0), ValRaw("i32", 1) >>

(***************************************************************************)
(* Properties of the certificate chain.                                    *)
(***************************************************************************)
\* the certificate at index `i` is the one `issuer_and_serial_number` names
IsRequested(i, issuer_and_serial_number) ==
    /\ certificates[i].issuer = issuer_and_serial_number.issuer
    /\ certificates[i].serial_number = issuer_and_serial_number.serial_number

C29_NoCertificateTwice ==
    \A i, j \in 1..Len(chain) : chain[i] = chain[j] => i = j

(***************************************************************************)
(* Properties of the magic module.                                         *)
(***************************************************************************)
\* C26: when main has run both caches are empty, and what `type` and
\* `mime_type` return is what libmagic says of the data of the scan in
\* course, whatever was scanned before on the thread.
C26_CachesClearedWithEveryScan ==
    /\ magic_call.fn = "main" => type_cache = None /\ mime_type_cache = None
    /\ magic_call.fn = "type" =>
          magic_call.value = MagicBuffer(FlagsDefault, magic_data)
    /\ magic_call.fn = "mime_type" =>
          magic_call.value = MagicBuffer(FlagsMimeType, magic_data)
    /\ type_cache.some => type_cache.value = MagicBuffer(FlagsDefault, magic_data)
    /\ mime_type_cache.some =>
          mime_type_cache.value = MagicBuffer(FlagsMimeType, magic_data)

\* `type` of the second file of the thread, after `type` and `mime_type` of
\* a first file of another kind
C26_Witness ==
    /\ magic_call.fn = "type"
    /\ magic_data = "ELF"
    /\ magic_call.value = "ELF 64-bit LSB executable"
    /\ magic_invocations = [type |-> 1, mime_type |-> 0]
    /\ magic_flags = FlagsDefault

\* C27: in one scan libmagic is invoked once at most for `type` and once at
\* most for `mime_type`.
C27_LibmagicOncePerScan ==
    /\ magic_invocations.type <= 1
    /\ magic_invocations.mime_type <= 1

(***************************************************************************)
(* Properties of the emission of the rules.                                *)
(***************************************************************************)
\* C28: vars_stack_top is 0 when the emission of a rule begins and 0 again
\* when its code has been emitted, whatever loops the rule has: the
\* assertion after emit_rule_code holds, outside the loops no slot is in
\* use, and inside them the slots in use are those of the loops being
\* emitted.
C28_StackEmptyBetweenRules ==
    /\ ctx_pc # "assert_failed"
    /\ ctx_pc = "emitted" => vars_stack_top = 0 /\ live = << >>
    /\ (ctx_pc = "emitting" /\ last = NoCall) => vars_stack_top = 0
    /\ (ctx_pc = "emitting" /\ loop_frames = << >>) => vars_stack_top = 0
    /\ ctx_pc = "emitting" => vars_stack_top = Len(live)
    /\ \A k \in 1..Len(loop_frames) : loop_frames[k] < vars_stack_top

\* the second rule, whose loops held three slots, has been emitted with
\* nothing on the stack, after a first rule with two nested loops that
\* held four
C28_Witness ==
    /\ emit_log = << 4, 3 >>
    /\ ctx_pc = "emitted"
    /\ vars_stack_top = 0
    /\ last.op = "free_vars"

(***************************************************************************)
(* Properties of the Authenticode parser.                                  *)
(***************************************************************************)
\* what C25 asks of a SignedData
OneSignerInfo(sd) == Len(sd.signer_infos) = 1
OneDigestAlgorithm(sd) ==
    /\ Len(sd.digest_algorithms) = 1
    /\ OneSignerInfo(sd) => sd.signer_infos[1].digest_alg = sd.digest_algorithms[1]
VersionsV1(sd) ==
    /\ sd.version = 1
    /\ \A k \in 1..Len(sd.signer_infos) : sd.signer_infos[k].version = 1
Conforms(sd) == OneSignerInfo(sd) /\ OneDigestAlgorithm(sd) /\ VersionsV1(sd)

\* the errors that tell what a SignedData lacks
ErrorsOf(sd) ==
    (IF sd.version # 1 THEN {"InvalidSignedDataVersion"} ELSE {})
    \cup (IF Len(sd.digest_algorithms) # 1 THEN {"InvalidNumDigestAlgorithms"} ELSE {})
    \cup (IF ~OneSignerInfo(sd) THEN {"InvalidNumSignerInfo"} ELSE {})
    \cup (IF \E k \in 1..Len(sd.signer_infos) : sd.signer_infos[k].version # 1
          THEN {"InvalidSignerInfoVersion"} ELSE {})
    \cup (IF Len(sd.digest_algorithms) = 1 /\ OneSignerInfo(sd)
             /\ sd.signer_infos[1].digest_alg # sd.digest_algorithms[1]
          THEN {"AlgorithmMismatch"} ELSE {})

RECURSIVE SignedDatasOf(_)
\* the conforming nested SignedDatas of the attributes, each followed by
\* its own
SignedDatasOf(attrs) ==
    IF attrs = << >> THEN << >>
    ELSE (IF Conforms(Head(attrs))
          THEN << Head(attrs) >> \o SignedDatasOf(Head(attrs).nested)
          ELSE << >>) \o SignedDatasOf(Tail(attrs))

ExportsOf(m) ==
    IF m.rust_module_name = None THEN {}
    ELSE {i \in 1..Len(exports) :
            /\ exports[i].public
            /\ Contains(exports[i].rust_module_path, m.rust_module_name.value)}

\* the registry entry of the module of the name `module_name`
RegistryEntry(module_name) ==
    registry[CHOOSE k \in 1..Len(registry) : registry[k].name = module_name]

\* C24: the function fields of the struct of an imported module are the
\* names of the public exports whose Rust module path contains the name of
\* the code module of the module; a field has one signature for each
\* export of its name, which is `<module>.<mangled name>`; a module with no
\* code module has no function field.
C24_FunctionsOfTheModule ==
    \A j \in 1..Len(module_functions) :
       LET imported == module_functions[j]
           m  == RegistryEntry(imported.module_name)
           of == ExportsOf(m)
       IN  /\ DOMAIN imported.functions = {exports[i].name : i \in of}
           /\ \A n \in DOMAIN imported.functions :
                 imported.functions[n] =
                    {Qualified(m.name, exports[i].mangled_name) :
                        i \in {i2 \in of : exports[i2].name = n}}
           /\ m.rust_module_name = None => imported.functions = NoFunctions

\* the module pe, whose code module is pe, was imported: its function f
\* has the two signatures of the two exports of that name
C24_Witness ==
    /\ Len(module_functions) >= 1
    /\ module_functions[1].module_name = << "p", "e" >>
    /\ RegistryEntry(<< "p", "e" >>).rust_module_name = Some(<< "p", "e" >>)
    /\ DOMAIN module_functions[1].functions = {"f"}
    /\ module_functions[1].functions["f"] =
          {<< "p", "e", ".", "f", "@", "i" >>, << "p", "e", ".", "f", "@", "s" >>}

\* the names the compiler has for functions: the signatures of the
\* built-in functions and of the functions of the modules imported
CompilerNames ==
    (IF builtin_functions = NotBuilt THEN {}
     ELSE UNION {builtin_functions.symbols[n] : n \in DOMAIN builtin_functions.symbols})
    \cup UNION {UNION {module_functions[j].functions[n] :
                          n \in DOMAIN module_functions[j].functions} :
                  j \in 1..Len(module_functions)}

\* C30 (as claimed): once the linker is made, every name the compiler has
\* for a function is the name of one function of the linker, and one only.
C30_LinkageNamesAgree ==
    linker # NotLinked =>
       \A name \in CompilerNames :
          Cardinality({i \in 1..Len(linker) : linker[i].name = name}) = 1

====
